---- MODULE Spec2Model ----
(***************************************************************************)
(* A model of the NARS reasoning core: the Bag (NARSDataStructures/Bag.py),*)
(* the input buffer (InputBuffer.py), term parsing (NALGrammar/Terms.py)   *)
(* and the two-premise inference dispatcher (NARSInferenceEngine.py with   *)
(* NALInferenceRules.py and NALInferenceRules/HelperFunctions.py).         *)
(***************************************************************************)
EXTENDS Integers, Sequences, FiniteSets, TLC

(***************************************************************************)
(* Bounds of the model.  There are two keys more than the bag can hold, so *)
(* that a key can be out of the bag while the bag is over its capacity.    *)
(***************************************************************************)
Capacity == 1
MaxPriority == 1
NumKeys == Capacity + 2
MaxDepq == NumKeys
\* the number of calls made on the input buffer
MaxCalls == 4
\* the ids of the input sentences that evidential bases are made of
MaxEvidence == 2
\* the latest occurrence time of an event
MaxTime == 2
\* the number of calls of Term.from_string
MaxTermCalls == 3

VARIABLES
    item_keys,          \* Bag.item_keys: vector of the keys of the bag
    weights,            \* Bag.weights: vector of priority weights
    weights_sum,        \* Bag.weights_sum
    item_lookup_dict,   \* ItemContainer.item_lookup_dict: key -> Item
    ordered_items,      \* Bag.ordered_items: the Depq of (item, priority)
    last                \* the last Bag call: its argument and its outcome

bagvars == <<item_keys, weights, weights_sum, item_lookup_dict, ordered_items, last>>

VARIABLES
    input_queue,        \* InputBuffer.input_queue: the pending sentences
    input_tasks,        \* the sentences of the input tasks created, in order
    output,             \* the lines written by GlobalGUI.print_to_output
    created,            \* the number of sentence objects created so far
    ncalls,             \* the number of calls made on the input buffer
    inlast              \* the last input buffer call and the state before it

inputvars == <<input_queue, input_tasks, output, created, ncalls, inlast>>

VARIABLES
    sentence1,          \* the first sentence given to do_inference_two_premise
    sentence2,          \* the second sentence given to it
    inference           \* the outcome of the call, once it was made

infervars == <<sentence1, sentence2, inference>>

VARIABLES
    term_dict,          \* Term.term_dict: term string -> the term object kept
    term_objects,       \* the term objects kept, in the order of their creation
    term_calls,         \* the number of calls of Term.from_string made
    term_last           \* the last call of Term.from_string and its outcome

termvars == <<term_dict, term_objects, term_calls, term_last>>

VARIABLES
    truth_args,         \* the arguments given to a truth value function
    truth               \* the function called on them and its outcome

truthvars == <<truth_args, truth>>

vars == <<bagvars, inputvars, infervars, termvars, truthvars>>

None == 0
Keys == 1..NumKeys
Priorities == 0..MaxPriority

\* An Item object as the bag sees it: its key and the priority of its budget.
Item(k, p) == [key |-> k, priority |-> p]

Min2(a, b) == IF a < b THEN a ELSE b
Max2(a, b) == IF a > b THEN a ELSE b

(***************************************************************************)
(* Budget: priorities are clamped to the priority range; the weight is a   *)
(* fixed monotone function of the priority.                                *)
(***************************************************************************)
PriorityWeight(p) == p * p
SetPriority(p) == Max2(0, Min2(MaxPriority, p))
Strengthen(p) == Min2(MaxPriority, p + 1)
Decay(p) == Max2(0, p - 1)

(***************************************************************************)
(* ItemContainer: the lookup dictionary.                                   *)
(***************************************************************************)
\* a lookup dictionary that takes a key it already holds
LookupTakesAny(d, item) == FALSE
LookupRejects(d, item) == item.key \in DOMAIN d
PutIntoLookupDict(d, item) ==
    [k \in DOMAIN d \cup {item.key} |-> IF k = item.key THEN item ELSE d[k]]
TakeFromLookupDict(d, key) == [k \in DOMAIN d \ {key} |-> d[k]]
\* dict.get(key, None); None is shown as the item without identity
NoneItem == [key |-> None, priority |-> 0]
PeekUsingKey(d, key) == IF key \in DOMAIN d THEN d[key] ELSE NoneItem

(***************************************************************************)
(* Depq: a double-ended priority queue of (item, priority at insertion).   *)
(* It is a multiset, written as the sequence of its entries in ascending   *)
(* order of priority (then key); among entries of equal priority either    *)
(* may be the one yielded.                                                 *)
(***************************************************************************)
EmptyDepq == <<>>
EntryBefore(e, f) == e[2] < f[2] \/ (e[2] = f[2] /\ e[1] <= f[1])
DepqInsert(q, item, p) ==
    LET e == <<item.key, p>>
    IN SelectSeq(q, LAMBDA x : EntryBefore(x, e)) \o <<e>>
       \o SelectSeq(q, LAMBDA x : ~EntryBefore(x, e))
DepqRemove(q, e) ==
    LET n == CHOOSE m \in 1..Len(q) : q[m] = e
    IN SubSeq(q, 1, n - 1) \o SubSeq(q, n + 1, Len(q))
DepqSize(q) == Len(q)
DepqMinEntries(q) == {q[n] : n \in {m \in 1..Len(q) : q[m][2] = q[1][2]}}
DepqMaxEntries(q) == {q[n] : n \in {m \in 1..Len(q) : q[m][2] = q[Len(q)][2]}}
DepqKeys(q) == {q[n][1] : n \in 1..Len(q)}

(***************************************************************************)
(* numpy helpers                                                           *)
(***************************************************************************)
\* np.where(item_keys == key): every index holding the key
Where(keys, key) == {n \in 1..Len(keys) : keys[n] = key}
\* np.delete(v, idx)
DeleteNothing(v, idx) == v
Delete(v, idx) ==
    LET keep == SelectSeq([n \in 1..Len(v) |-> n], LAMBDA n : n \notin idx)
    IN [m \in 1..Len(keep) |-> v[keep[m]]]
\* v[idx] = x
Assign(v, idx, x) == [n \in 1..Len(v) |-> IF n \in idx THEN x ELSE v[n]]
RECURSIVE SeqSum(_)
SeqSum(s) == IF s = <<>> THEN 0 ELSE Head(s) + SeqSum(Tail(s))

(***************************************************************************)
(* Strings are sequences of characters.  Ascii lists the characters of the *)
(* model in the order of their code points, which is the order Python      *)
(* compares strings in.                                                    *)
(***************************************************************************)
Ascii ==
    <<" ", "!", "#", "&", "(", ")", "*", ",", "-", ".", "/", "<", "=", ">", "?",
      "A", "B", "C", "M", "P", "S", "[", "]", "_", "{", "|", "}", "~">>
CharCode(c) == CHOOSE n \in 1..Len(Ascii) : Ascii[n] = c
RECURSIVE StrLess(_, _)
\* s < t for Python strings
StrLess(s, t) ==
    IF t = <<>> THEN FALSE
    ELSE IF s = <<>> THEN TRUE
    ELSE IF Head(s) = Head(t) THEN StrLess(Tail(s), Tail(t))
    ELSE CharCode(Head(s)) < CharCode(Head(t))
\* s[a:b] for 0 <= a and 0 <= b
Slice(s, a, b) == SubSeq(s, a + 1, Min2(b, Len(s)))
\* s.replace(" ", "")
NoSpaces(s) == SelectSeq(s, LAMBDA c : c # " ")
\* s.find(c): the first 0-based index of c, or -1
Find(s, c) ==
    IF \E n \in 1..Len(s) : s[n] = c
    THEN (CHOOSE n \in 1..Len(s) : s[n] = c /\ \A m \in 1..(n - 1) : s[m] # c) - 1
    ELSE 0 - 1

(***************************************************************************)
(* NALSyntax: the symbol tables of the Narsese wire format.                *)
(***************************************************************************)
StatementStart == "("
StatementEnd == ")"
TermDivider == ","
Copulas ==
    {<<"-", "-", ">">>, <<"<", "-", ">">>, <<"=", "=", ">">>, <<"<", "=", ">">>,
     <<"=", "/", ">">>, <<"=", "|", ">">>, <<"<", "/", ">">>, <<"<", "|", ">">>}
SymmetricCopulas ==
    {<<"<", "-", ">">>, <<"<", "=", ">">>, <<"<", "/", ">">>, <<"<", "|", ">">>}
Inheritance == <<"-", "-", ">">>
Implication == <<"=", "=", ">">>
\* Copula.is_first_order
CopulaIsFirstOrder(copula) == copula \in {<<"-", "-", ">">>, <<"<", "-", ">">>}
IsStringACopula(s) == s \in Copulas
IsSymmetric(copula) == copula \in SymmetricCopulas
NoConnector == <<>>
Negation == <<"-", "-">>
ExtensionalSetStart == <<"{">>
IntensionalSetStart == <<"[">>
IntensionalIntersection == <<"|">>
ExtensionalIntersection == <<"&">>
Conjunction == <<"&", "&">>
\* TermConnector.is_first_order
ConnectorIsFirstOrder(connector) ==
    connector \notin {<<"-", "-">>, <<"&", "&">>, <<"|", "|">>, <<"&", "/">>, <<"&", "|">>}
TermConnectors ==
    {<<"&">>, <<"|">>, <<"-">>, <<"~">>, <<"*">>, <<"/">>, Negation,
     <<"&", "&">>, <<"|", "|">>, <<"&", "/">>, <<"&", "|">>,
     ExtensionalSetStart, IntensionalSetStart}
\* NoConnector stands for None
GetTermConnectorFromString(s) == IF s \in TermConnectors THEN s ELSE NoConnector
IsSetBracketStart(c) == c \in {"{", "["}
IsSetBracketEnd(c) == c \in {"}", "]"}
GetSetEndConnector(connector) == IF connector = ExtensionalSetStart THEN <<"}">> ELSE <<"]">>
IsOrderInvariant(connector) ==
    connector \in {<<"&">>, <<"|">>, <<"&", "&">>, <<"|", "|">>, <<"&", "|">>,
                   ExtensionalSetStart, IntensionalSetStart}
ValidTermChars == {"A", "B", "C", "M", "P", "S", "_"}


(***************************************************************************)
(* NALGrammar.Terms.  A term is a record of its class (type), its          *)
(* formatted string, its connector, its copula and its subterms.  A call   *)
(* that can raise yields an outcome: exc is "none" and term is the result, *)
(* or exc is the class of the exception raised and msg its message.        *)
(* Array terms ("@") are not among the strings of the model.               *)
(***************************************************************************)
MkTerm(type, string, connector, copula, subterms) ==
    [type |-> type, string |-> string, connector |-> connector,
     copula |-> copula, subterms |-> subterms]
NoTerm == MkTerm("none", <<>>, NoConnector, <<>>, <<>>)
Ok(t) == [exc |-> "none", msg |-> "", term |-> t]
Raise(kind, msg) == [exc |-> kind, msg |-> msg, term |-> NoTerm]
\* the outcome of evaluating calls in sequence: the first one that raises
FirstRaise(outs) ==
    outs[CHOOSE n \in 1..Len(outs) :
            outs[n].exc # "none" /\ \A m \in 1..(n - 1) : outs[m].exc = "none"]
AllOk(outs) == \A n \in 1..Len(outs) : outs[n].exc = "none"

\* the nesting depth the scan of get_top_level_copula has before index i
DepthBefore(string, i) ==
    Cardinality({n \in 1..i : string[n] = StatementStart})
        - Cardinality({n \in 1..i : string[n] = StatementEnd})
CopulaIndices(string) ==
    {i \in 0..(Len(string) - 1) :
        /\ string[i + 1] \notin {StatementStart, StatementEnd}
        /\ DepthBefore(string, i) = 1
        /\ i + 3 <= Len(string)
        /\ IsStringACopula(Slice(string, i, i + 3))}
\* the assignment in the loop overwrites: the last match is returned
GetTopLevelCopula(string) ==
    IF CopulaIndices(string) = {} THEN [copula |-> <<>>, idx |-> 0 - 1]
    ELSE LET i == CHOOSE j \in CopulaIndices(string) :
                     \A k \in CopulaIndices(string) : k <= j
         IN  [copula |-> Slice(string, i, i + 3), idx |-> i]

IsValidTerm(term_string) == \A n \in 1..Len(term_string) : term_string[n] \in ValidTermChars
AtomicTerm(term_string) ==
    IF IsValidTerm(term_string)
    THEN Ok(MkTerm("atomic", term_string, NoConnector, <<>>, <<>>))
    ELSE Raise("AssertionError", "is not a valid Atomic Term name.")

VARIABLE_SYM == "#"
QUERY_SYM == "?"
\* VariableTerm.from_string and get_formatted_string: a non-empty dependency
\* list string gives the empty dependency list, formatted as ")"
VariableTerm(variable_name, variable_type_symbol, dependency_list_string) ==
    LET dependency_string == IF Len(dependency_list_string) > 0 THEN <<")">> ELSE <<>>
    IN  Ok(MkTerm("variable", <<variable_type_symbol>> \o variable_name \o dependency_string,
                  NoConnector, <<>>, <<>>))
VariableFromString(term_string) ==
    LET dependency_list_start_idx == Find(term_string, "(")
        close == Find(term_string, ")")
        stop == IF close < 0 THEN Len(term_string) - 1 ELSE close
    IN  IF dependency_list_start_idx = 0 - 1
        THEN VariableTerm(Slice(term_string, 1, Len(term_string)), term_string[1], <<>>)
        ELSE VariableTerm(Slice(term_string, 1, dependency_list_start_idx), term_string[1],
                          Slice(term_string, dependency_list_start_idx + 1, stop))

RECURSIVE ConcatWithDivider(_)
ConcatWithDivider(subterms) ==
    IF subterms = <<>> THEN <<>>
    ELSE Head(subterms).string \o <<TermDivider>> \o ConcatWithDivider(Tail(subterms))
IsSet(connector) == connector \in {ExtensionalSetStart, IntensionalSetStart}
\* CompoundTerm.get_formatted_string
CompoundFormattedString(subterms, connector) ==
    LET start == IF IsSet(connector) THEN connector ELSE connector \o <<TermDivider>>
        all == start \o ConcatWithDivider(subterms)
        string == Slice(all, 0, Len(all) - 1)
    IN  IF IsSet(connector) THEN string \o GetSetEndConnector(connector)
        ELSE <<StatementStart>> \o string \o <<StatementEnd>>
\* StatementTerm.get_formatted_string for a subject and a predicate
StatementFormattedString(subterms, copula) ==
    <<StatementStart>> \o subterms[1].string \o <<" ">> \o copula \o <<" ">>
        \o subterms[2].string \o <<StatementEnd>>

RECURSIVE SortTerms(_)
\* list.sort(key=lambda t: str(t)), a stable sort
SortTerms(subterms) ==
    IF subterms = <<>> THEN <<>>
    ELSE LET x == subterms[Len(subterms)]
             sorted == SortTerms(SubSeq(subterms, 1, Len(subterms) - 1))
         IN  SelectSeq(sorted, LAMBDA y : ~StrLess(x.string, y.string)) \o <<x>>
                 \o SelectSeq(sorted, LAMBDA y : StrLess(x.string, y.string))

RECURSIVE SplitTopLevel(_, _, _)
\* the loop of parse_toplevel_subterms_and_connector that cuts the internal
\* string at the dividers of depth 0
SplitTopLevel(internal_string, depth, subterm_string) ==
    IF internal_string = <<>> THEN <<subterm_string>>
    ELSE LET c == Head(internal_string)
             d == IF c = StatementStart \/ IsSetBracketStart(c) THEN depth + 1
                  ELSE IF c = StatementEnd \/ IsSetBracketEnd(c) THEN depth - 1
                  ELSE depth
         IN  IF c = TermDivider /\ d = 0
             THEN <<subterm_string>> \o SplitTopLevel(Tail(internal_string), d, <<>>)
             ELSE SplitTopLevel(Tail(internal_string), d, Append(subterm_string, c))


RECURSIVE TermFromString(_)
RECURSIVE CompoundTermFromString(_)
RECURSIVE CompoundTermInit(_, _)
RECURSIVE ParseToplevelSubtermsAndConnector(_)
RECURSIVE StatementTermFromString(_)

\* the terms a sequence of calls returned
TermsOf(outs) == [n \in 1..Len(outs) |-> outs[n].term]
\* Term.from_string on each string in turn
ParseEach(strings) == [n \in 1..Len(strings) |-> TermFromString(strings[n])]

\* CompoundTerm.__init__: sorts the subterms of an order invariant connector
\* and turns a set of several elements into an intersection of singleton sets
CompoundOf(subterms, connector) ==
    Ok(MkTerm("compound", CompoundFormattedString(subterms, connector),
              connector, <<>>, subterms))
SetOfSingletons(singletons, connector) ==
    IF AllOk(singletons) THEN CompoundOf(TermsOf(singletons), connector)
    ELSE FirstRaise(singletons)
CompoundOfSorted(sorted, term_connector) ==
    IF IsSet(term_connector) /\ Len(sorted) > 1
    THEN SetOfSingletons(
             [n \in 1..Len(sorted) |->
                 CompoundTermFromString(term_connector \o sorted[n].string
                                          \o GetSetEndConnector(term_connector))],
             IF term_connector = ExtensionalSetStart
             THEN IntensionalIntersection ELSE ExtensionalIntersection)
    ELSE CompoundOf(sorted, term_connector)
CompoundTermInit(subterms, term_connector) ==
    CompoundOfSorted(IF Len(subterms) > 1 /\ IsOrderInvariant(term_connector)
                     THEN SortTerms(subterms) ELSE subterms,
                     term_connector)

\* the result of parse_toplevel_subterms_and_connector
Parsed(connector, subterms) ==
    [exc |-> "none", msg |-> "", connector |-> connector, subterms |-> subterms]
ParseRaised(kind, msg) ==
    [exc |-> kind, msg |-> msg, connector |-> NoConnector, subterms |-> <<>>]
ParseRaisedAs(raised) == ParseRaised(raised.exc, raised.msg)
SubtermsOf(outs, connector) ==
    IF AllOk(outs) THEN Parsed(connector, TermsOf(outs))
    ELSE ParseRaisedAs(FirstRaise(outs))
\* the connector is dereferenced before it is asserted not to be None
ParseToplevelSubtermsAndConnector(compound_term_string) ==
    LET string == NoSpaces(compound_term_string)
        internal_string == Slice(string, 1, Len(string) - 1)
        set_connector == GetTermConnectorFromString(<<string[1]>>)
        is_set == set_connector # NoConnector
        connector_string == IF internal_string[2] = TermDivider
                            THEN <<internal_string[1]>> ELSE Slice(internal_string, 0, 2)
        term_connector == GetTermConnectorFromString(connector_string)
    IN  IF ~is_set /\ Len(internal_string) < 2
        THEN ParseRaised("IndexError", "string index out of range")
        ELSE IF ~is_set /\ term_connector = NoConnector
        THEN ParseRaised("AttributeError", "'NoneType' object has no attribute 'value'")
        ELSE IF ~is_set /\ Len(internal_string) <= Len(term_connector)
        THEN ParseRaised("IndexError", "string index out of range")
        ELSE IF ~is_set /\ internal_string[Len(term_connector) + 1] # TermDivider
        THEN ParseRaised("AssertionError",
                         "Connector not followed by comma in CompoundTerm string")
        ELSE SubtermsOf(
                 ParseEach(SplitTopLevel(
                     IF is_set THEN internal_string
                     ELSE Slice(internal_string, Len(term_connector) + 1,
                                Len(internal_string)),
                     0, <<>>)),
                 IF is_set THEN set_connector ELSE term_connector)

CompoundOfParsed(parsed) ==
    IF parsed.exc # "none" THEN Raise(parsed.exc, parsed.msg)
    ELSE CompoundTermInit(parsed.subterms, parsed.connector)
CompoundTermFromString(compound_term_string) ==
    CompoundOfParsed(ParseToplevelSubtermsAndConnector(compound_term_string))

\* StatementTerm.__init__ with a subject and a predicate
StatementTermInit(subject_term, predicate_term, copula, statement_connector) ==
    LET subterms == IF IsSymmetric(copula) THEN SortTerms(<<subject_term, predicate_term>>)
                    ELSE <<subject_term, predicate_term>>
    IN  Ok(MkTerm("statement", StatementFormattedString(subterms, copula),
                  statement_connector, copula, subterms))

StatementOfParsed(outs, copula, statement_connector) ==
    IF AllOk(outs)
    THEN StatementTermInit(outs[1].term, outs[2].term, copula, statement_connector)
    ELSE FirstRaise(outs)
StatementTermFromString(statement_string0) ==
    LET negated == GetTermConnectorFromString(Slice(statement_string0, 1, 3)) = Negation
        statement_connector == IF negated THEN Negation ELSE NoConnector
        statement_string == IF negated
                            THEN Slice(statement_string0, 4, Len(statement_string0) - 1)
                            ELSE statement_string0
        top == GetTopLevelCopula(statement_string)
        subject_str == Slice(statement_string, 1, top.idx)
        predicate_str == Slice(statement_string, top.idx + 3, Len(statement_string) - 1)
    IN  IF top.idx < 0 THEN Raise("AssertionError", "Copula not found. Exiting..")
        ELSE StatementOfParsed(ParseEach(<<subject_str, predicate_str>>), top.copula,
                               statement_connector)

\* Term.from_string, without the lookup in term_dict
TermFromString(term_string) ==
    IF term_string = <<>> THEN Raise("IndexError", "string index out of range")
    ELSE IF term_string[1] = StatementStart /\ term_string[Len(term_string)] # StatementEnd
    THEN Raise("AssertionError", "Compound/Statement term must have ending parenthesis")
    ELSE IF term_string[1] = StatementStart /\ GetTopLevelCopula(term_string).idx >= 0
    THEN StatementTermFromString(term_string)
    ELSE IF term_string[1] = StatementStart \/ IsSetBracketStart(term_string[1])
    THEN CompoundTermFromString(term_string)
    ELSE IF term_string[1] \in {VARIABLE_SYM, QUERY_SYM} THEN VariableFromString(term_string)
    ELSE AtomicTerm(term_string)


(***************************************************************************)
(* InputBuffer.  A sentence object is a record of its identity (id: the    *)
(* n-th sentence object created), its statement and its punctuation.       *)
(***************************************************************************)
Punctuations == {".", "!", "?", "@"}
NoSentence == [id |-> 0, statement |-> <<>>, punctuation |-> ""]
\* NALGrammar.Sentence.new_sentence_from_string: a term followed by a
\* punctuation.  The term is parsed by Term.from_string, whose exceptions
\* pass through.
SentenceOf(term, punctuation) ==
    IF term.exc # "none"
    THEN [exc |-> term.exc, msg |-> term.msg, sentence |-> NoSentence]
    ELSE [exc |-> "none", msg |-> "",
          sentence |-> [id |-> 0, statement |-> term.term.string,
                        punctuation |-> punctuation]]
NewSentenceFromString(input_string) ==
    IF input_string = <<>> \/ input_string[Len(input_string)] \notin Punctuations
    THEN [exc |-> "AssertionError", msg |-> "No punctuation found.",
          sentence |-> NoSentence]
    ELSE SentenceOf(TermFromString(Slice(input_string, 0, Len(input_string) - 1)),
                    input_string[Len(input_string)])
\* Sentence.get_formatted_string
SentenceFormattedString(sentence) == sentence.statement \o <<sentence.punctuation>>

COUNT == <<"c", "o", "u", "n", "t">>
CYCLE == <<"c", "y", "c", "l", "e">>
SAVE == <<"s", "a", "v", "e">>
LOAD == <<"l", "o", "a", "d">>
ReservedWords == {COUNT, CYCLE, SAVE, LOAD}
\* (A-->B).  and  (B-->C)?
WellFormedStrings ==
    {<<"(", "A", "-", "-", ">", "B", ")", ".">>,
     <<"(", "B", "-", "-", ">", "C", ")", "?">>}
\* (A,B).  and  (A-->).  and  (A-->B.
MalformedStrings ==
    {<<"(", "A", ",", "B", ")", ".">>,
     <<"(", "A", "-", "-", ">", ")", ".">>,
     <<"(", "A", "-", "-", ">", "B", ".">>}
InputStrings == ReservedWords \cup WellFormedStrings \cup MalformedStrings

\* a line of output: its fixed text and what is appended to it
Line(text, arg) == [text |-> text, arg |-> arg]
\* GlobalGUI.print_to_output
PrintToOutput(out, line) == Append(out, line)
\* queue.Queue.put and queue.Queue.get
QueuePut(queue, item) == Append(queue, item)
QueueGetLast(queue) ==
    [item |-> queue[Len(queue)], queue |-> SubSeq(queue, 1, Len(queue) - 1)]
QueueGet(queue) == [item |-> Head(queue), queue |-> Tail(queue)]

\* what add_input_string does with the outcome of new_sentence_from_string:
\* only an AssertionError is caught
AddParsed(parsed) ==
    IF parsed.exc = "none"
    THEN [input_queue |-> QueuePut(input_queue,
                                   [parsed.sentence EXCEPT !.id = created + 1]),
          output |-> output, created |-> created + 1, raised |-> "none"]
    ELSE IF parsed.exc = "AssertionError"
    THEN [input_queue |-> input_queue,
          output |-> PrintToOutput(output, Line("INPUT REJECTED: ", <<parsed.msg>>)),
          created |-> created, raised |-> "none"]
    ELSE [input_queue |-> input_queue, output |-> output, created |-> created,
          raised |-> parsed.exc]
AddInputString(input_string) ==
    LET Returns(out) == [input_queue |-> input_queue, output |-> out,
                         created |-> created, raised |-> "none"]
    IN  IF input_string = COUNT
        THEN Returns(PrintToOutput(
                 PrintToOutput(output, Line("Memory count (concepts in memory): ", <<>>)),
                 Line("Buffer count (tasks in buffer): ", <<>>)))
        ELSE IF input_string = CYCLE
        THEN Returns(PrintToOutput(output, Line("Current cycle: ", <<>>)))
        ELSE IF input_string \in {SAVE, LOAD} THEN Returns(output)
        ELSE AddParsed(NewSentenceFromString(input_string))

InCall(op, arg, raised) ==
    [op |-> op, arg |-> arg, raised |-> raised, input_queue |-> input_queue,
     input_tasks |-> input_tasks, output |-> output]

InitInput ==
    /\ input_queue = <<>>
    /\ input_tasks = <<>>
    /\ output = <<>>
    /\ created = 0
    /\ ncalls = 0
    /\ inlast = [op |-> "none", arg |-> <<>>, raised |-> "none", input_queue |-> <<>>,
                 input_tasks |-> <<>>, output |-> <<>>]

InstallInput(out, op, arg) ==
    /\ input_queue' = out.input_queue
    /\ output' = out.output
    /\ created' = out.created
    /\ inlast' = InCall(op, arg, out.raised)
    /\ ncalls' = ncalls + 1
    /\ UNCHANGED <<input_tasks, bagvars, infervars, termvars, truthvars>>

DoAddInputString ==
    /\ ncalls < MaxCalls
    /\ \E input_string \in InputStrings :
        InstallInput(AddInputString(input_string), "add_input_string", input_string)

\* add_input_sentence: the caller hands over a sentence object it made
AddInputSentence(sentence) ==
    [input_queue |-> QueuePut(input_queue, [sentence EXCEPT !.id = created + 1]),
     output |-> output, created |-> created + 1, raised |-> "none"]
DoAddInputSentence ==
    /\ ncalls < MaxCalls
    /\ \E input_string \in WellFormedStrings :
        InstallInput(AddInputSentence(NewSentenceFromString(input_string).sentence),
                     "add_input_sentence", input_string)

\* process_next_pending_sentence with process_sentence
DoProcessNextPendingSentence ==
    /\ ncalls < MaxCalls
    /\ IF Len(input_queue) = 0
       THEN UNCHANGED <<input_queue, input_tasks, output>>
       ELSE LET got == QueueGet(input_queue)
            IN  /\ input_queue' = got.queue
                /\ output' = PrintToOutput(output,
                                 Line("IN: ", SentenceFormattedString(got.item)))
                /\ input_tasks' = Append(input_tasks, got.item)
    /\ inlast' = InCall("process_next_pending_sentence", <<>>, "none")
    /\ ncalls' = ncalls + 1
    /\ UNCHANGED <<created, bagvars, infervars, termvars, truthvars>>

NextInput ==
    \/ DoAddInputString
    \/ DoAddInputSentence
    \/ DoProcessNextPendingSentence


(***************************************************************************)
(* Truth values.  A frequency or a confidence is an exact fraction, a      *)
(* record of a numerator n and a denominator d > 0 in lowest terms.        *)
(***************************************************************************)
RECURSIVE Gcd(_, _)
Gcd(a, b) == IF b = 0 THEN a ELSE Gcd(b, a % b)
Abs(a) == IF a < 0 THEN 0 - a ELSE a
Rat(n, d) == LET g == Gcd(Abs(n), d) IN [n |-> n \div g, d |-> d \div g]
RZero == Rat(0, 1)
ROne == Rat(1, 1)
RAdd(a, b) == Rat(a.n * b.d + b.n * a.d, a.d * b.d)
RSub(a, b) == Rat(a.n * b.d - b.n * a.d, a.d * b.d)
RMul(a, b) == Rat(a.n * b.n, a.d * b.d)
\* a / b for b > 0
RDiv(a, b) == Rat(a.n * b.d, a.d * b.n)
RLess(a, b) == a.n * b.d < b.n * a.d
\* Config.k, the evidential horizon
K == 1
ConfigK == Rat(K, 1)

RECURSIVE band(_)
\* band(*argv): the product of its arguments
band(argv) == IF argv = <<>> THEN ROne ELSE RMul(Head(argv), band(Tail(argv)))
RECURSIVE bandnot(_)
bandnot(argv) ==
    IF argv = <<>> THEN ROne ELSE RMul(RSub(ROne, Head(argv)), bandnot(Tail(argv)))
\* bor(*argv)
bor(argv) == RSub(ROne, bandnot(argv))
bnot(arg) == RSub(ROne, arg)

TruthValue(f, c) == [frequency |-> f, confidence |-> c]
NoValue == [frequency |-> RZero, confidence |-> RZero]
get_confidence_from_evidence(w) == RDiv(w, RAdd(w, ConfigK))
get_truthvalue_from_evidence(wp, w) ==
    TruthValue(IF wp = w THEN ROne ELSE RDiv(wp, w), get_confidence_from_evidence(w))
\* raises ZeroDivisionError when c = 1
get_evidence_fromfreqconf(f, c) ==
    [wp |-> RDiv(RMul(ConfigK, RMul(f, c)), RSub(ROne, c)),
     w |-> RDiv(RMul(ConfigK, c), RSub(ROne, c)),
     wn |-> RSub(RDiv(RMul(ConfigK, c), RSub(ROne, c)),
                 RDiv(RMul(ConfigK, RMul(f, c)), RSub(ROne, c)))]

F_Revision(wp1, wn1, wp2, wn2) ==
    LET wp == RAdd(wp1, wp2)
        wn == RAdd(wn1, wn2)
        w == RAdd(wp, wn)
    IN  get_truthvalue_from_evidence(wp, w)
F_Negation(f, c) == TruthValue(RSub(ROne, f), c)
F_Conversion(f, c) ==
    LET wp == band(<<f, c>>)
    IN  get_truthvalue_from_evidence(wp, wp)
F_Contraposition(f, c) ==
    LET wn == band(<<bnot(f), c>>)
    IN  get_truthvalue_from_evidence(RZero, wn)
\* a deduction whose confidence leaves out the frequencies
F_DeductionOfConfidences(f1, c1, f2, c2) == TruthValue(band(<<f1, f2>>), band(<<c1, c2>>))
F_Deduction(f1, c1, f2, c2) == TruthValue(band(<<f1, f2>>), band(<<f1, f2, c1, c2>>))
F_Analogy(f1, c1, f2, c2) == TruthValue(band(<<f1, f2>>), band(<<f2, c1, c2>>))
F_Resemblance(f1, c1, f2, c2) ==
    TruthValue(band(<<f1, f2>>), band(<<bor(<<f1, f2>>), c1, c2>>))
F_Abduction(f1, c1, f2, c2) ==
    get_truthvalue_from_evidence(band(<<f1, f2, c1, c2>>), band(<<f1, c1, c2>>))
F_Induction(f1, c1, f2, c2) ==
    get_truthvalue_from_evidence(band(<<f1, f2, c1, c2>>), band(<<f2, c1, c2>>))
F_Exemplification(f1, c1, f2, c2) ==
    get_truthvalue_from_evidence(band(<<f1, f2, c1, c2>>), band(<<f1, f2, c1, c2>>))
F_Comparison(f1, c1, f2, c2) ==
    get_truthvalue_from_evidence(band(<<f1, f2, c1, c2>>),
                                 band(<<bor(<<f1, f2>>), c1, c2>>))
F_Intersection(f1, c1, f2, c2) == TruthValue(band(<<f1, f2>>), band(<<c1, c2>>))
F_Union(f1, c1, f2, c2) == TruthValue(bor(<<f1, f2>>), band(<<c1, c2>>))
\* not (f2): True, which multiplies as 1, when f2 is 0, and False, 0, otherwise
PyNot(arg) == IF arg = RZero THEN ROne ELSE RZero
F_Difference(f1, c1, f2, c2) == TruthValue(band(<<f1, PyNot(f2)>>), band(<<c1, c2>>))

\* The outcome of a truth value function that can raise.
TruthReturned(value) == [exc |-> "none", value |-> value]
TruthRaised(kind) == [exc |-> kind, value |-> NoValue]
\* class Global of Global.py has the attribute current_cycle_number and no
\* method get_current_cycle_number
GlobalAttributes == {"NARS", "current_cycle_number", "paused"}
\* lines 254 to 256 of F_Projection for a current cycle number T_c
ProjectedAt(frequency, confidence, t_B, t_T, T_c) ==
    IF Abs(t_B - T_c) + Abs(t_T - T_c) = 0 THEN TruthRaised("ZeroDivisionError")
    ELSE TruthReturned(TruthValue(frequency,
             RMul(RSub(ROne, Rat(Abs(t_B - t_T), Abs(t_B - T_c) + Abs(t_T - T_c))),
                  confidence)))
F_Projection(frequency, confidence, t_B, t_T) ==
    IF "get_current_cycle_number" \notin GlobalAttributes THEN TruthRaised("AttributeError")
    ELSE ProjectedAt(frequency, confidence, t_B, t_T, 0)
F_Eternalization(temporal_frequency, temporal_confidence) ==
    TruthValue(temporal_frequency, RDiv(ROne, RAdd(ConfigK, temporal_confidence)))


(***************************************************************************)
(* Sentences and the inference rules.  A sentence is a record of its class *)
(* (type), its statement (a statement term), its truth value, the          *)
(* evidential base of its stamp, and the rule that derived it.             *)
(***************************************************************************)
Similarity == <<"<", "-", ">">>
\* NALGrammar.Statement(subject, predicate, copula, statement_connector)
StatementWith(subject_term, predicate_term, copula, statement_connector) ==
    StatementTermInit(subject_term, predicate_term, copula, statement_connector).term
Statement(subject_term, predicate_term, copula) ==
    StatementWith(subject_term, predicate_term, copula, NoConnector)
GetSubjectTerm(statement) == statement.subterms[1]
GetPredicateTerm(statement) == statement.subterms[2]
\* Term.__eq__: terms are equal if their strings are the same
TermEq(a, b) == a.string = b.string

\* the evidential base of the stamp of a new sentence, and
\* EvidentialBase.merge_sentence_evidential_base_into_self
NewEvidentialBase == {}
MergeSentenceEvidentialBaseIntoSelf(base, j) == base \cup j.evidential_base
\* a sentence without an occurrence time (None) is eternal
Judgment(statement, value) ==
    [type |-> "Judgment", statement |-> statement, value |-> value,
     evidential_base |-> NewEvidentialBase, rule |-> "", occurrence_time |-> None]
Goal(statement, value) ==
    [type |-> "Goal", statement |-> statement, value |-> value,
     evidential_base |-> NewEvidentialBase, rule |-> "", occurrence_time |-> None]
Question(statement) ==
    [type |-> "Question", statement |-> statement, value |-> NoValue,
     evidential_base |-> NewEvidentialBase, rule |-> "", occurrence_time |-> None]
At(sentence, occurrence_time) == [sentence EXCEPT !.occurrence_time = occurrence_time]
\* a question has no value to read
NoValueOfQuestion == "'Question' object has no attribute 'value'"
\* neither branch of a rule has assigned result
ResultNotAssigned == "local variable 'result' referenced before assignment"
NoJudgment == Judgment(NoTerm, NoValue)
Returned(sentence) == [exc |-> "none", msg |-> "", sentence |-> sentence]
Raised(kind, msg) == [exc |-> kind, msg |-> msg, sentence |-> NoJudgment]

\* getevidentialvalues_fromsentence
Freq(j) == j.value.frequency
Conf(j) == j.value.confidence
\* the end of a rule with a wrong merge: only the first parent's base
TwoPremiseResultFirstParent(j1, j2, result_statement, result_truth, rule) ==
    LET result == IF j1.type = "Judgment"
                  THEN At(Judgment(result_statement, result_truth), j1.occurrence_time)
                  ELSE Question(result_statement)
    IN  IF j1.type = "Judgment" /\ j2.type = "Question"
        THEN Raised("AttributeError", NoValueOfQuestion)
        ELSE IF j1.type = "Goal" THEN Raised("UnboundLocalError", ResultNotAssigned)
        ELSE Returned([result EXCEPT
                 !.evidential_base = MergeSentenceEvidentialBaseIntoSelf(@, j1),
                 !.rule = rule])
\* The end every two-premise rule has: if j1 is a judgment the result is a
\* judgment of the occurrence time of j1 whose truth value is computed from
\* the values of both sentences (a question has none); if j1 is a question
\* the result is a question; for any other j1 no result is assigned.  The
\* evidential bases of j1 and then of j2 are merged into the result's.
TwoPremiseResult(j1, j2, result_statement, result_truth, rule) ==
    LET result == IF j1.type = "Judgment"
                  THEN At(Judgment(result_statement, result_truth), j1.occurrence_time)
                  ELSE Question(result_statement)
    IN  IF j1.type = "Judgment" /\ j2.type = "Question"
        THEN Raised("AttributeError", NoValueOfQuestion)
        ELSE IF j1.type = "Goal" THEN Raised("UnboundLocalError", ResultNotAssigned)
        ELSE Returned([result EXCEPT
                 !.evidential_base = MergeSentenceEvidentialBaseIntoSelf(
                                         MergeSentenceEvidentialBaseIntoSelf(@, j1), j2),
                 !.rule = rule])

RevisionTruth(f1, c1, f2, c2) ==
    LET e1 == get_evidence_fromfreqconf(f1, c1)
        e2 == get_evidence_fromfreqconf(f2, c2)
    IN  F_Revision(e1.wp, e1.wn, e2.wp, e2.wn)
Revision(j1, j2) ==
    IF ~TermEq(j1.statement, j2.statement)
    THEN Raised("AssertionError", "Cannot revise sentences for 2 different statements")
    ELSE IF j1.type = "Question" \/ j2.type = "Question"
    THEN Raised("AttributeError", NoValueOfQuestion)
    ELSE IF j1.value.confidence = ROne \/ j2.value.confidence = ROne
    THEN Raised("ZeroDivisionError", "division by zero")
    ELSE LET result == At(Judgment(Statement(GetSubjectTerm(j1.statement),
                                             GetPredicateTerm(j1.statement),
                                             j1.statement.copula),
                                   RevisionTruth(Freq(j1), Conf(j1), Freq(j2), Conf(j2))),
                          j1.occurrence_time)
         IN  Returned([result EXCEPT
                 !.evidential_base = MergeSentenceEvidentialBaseIntoSelf(
                                         MergeSentenceEvidentialBaseIntoSelf(@, j1), j2),
                 !.rule = "Revision"])

Deduction(j1, j2) ==
    TwoPremiseResult(j1, j2,
        Statement(GetSubjectTerm(j2.statement), GetPredicateTerm(j1.statement),
                  j1.statement.copula),
        F_Deduction(Freq(j1), Conf(j1), Freq(j2), Conf(j2)), "Deduction")
Abduction(j1, j2) ==
    TwoPremiseResult(j1, j2,
        Statement(GetSubjectTerm(j2.statement), GetSubjectTerm(j1.statement),
                  j1.statement.copula),
        F_Abduction(Freq(j1), Conf(j1), Freq(j2), Conf(j2)), "Abduction")
Induction(j1, j2) ==
    TwoPremiseResult(j1, j2,
        Statement(GetPredicateTerm(j2.statement), GetPredicateTerm(j1.statement),
                  j1.statement.copula),
        F_Induction(Freq(j1), Conf(j1), Freq(j2), Conf(j2)), "Induction")
Exemplification(j1, j2) ==
    TwoPremiseResult(j1, j2,
        Statement(GetPredicateTerm(j2.statement), GetSubjectTerm(j1.statement),
                  j1.statement.copula),
        F_Exemplification(Freq(j1), Conf(j1), Freq(j2), Conf(j2)), "Exemplification")
Comparison(j1, j2) ==
    IF TermEq(GetSubjectTerm(j1.statement), GetSubjectTerm(j2.statement))
    THEN TwoPremiseResult(j1, j2,
             Statement(GetPredicateTerm(j2.statement), GetPredicateTerm(j1.statement),
                       Similarity),
             F_Comparison(Freq(j1), Conf(j1), Freq(j2), Conf(j2)), "Comparison")
    ELSE IF TermEq(GetPredicateTerm(j1.statement), GetPredicateTerm(j2.statement))
    THEN TwoPremiseResult(j1, j2,
             Statement(GetSubjectTerm(j2.statement), GetSubjectTerm(j1.statement),
                       Similarity),
             F_Comparison(Freq(j1), Conf(j1), Freq(j2), Conf(j2)), "Comparison")
    ELSE Raised("AssertionError", "Error: Invalid inputs to nal_comparison")


Analogy(j1, j2) ==
    LET s1 == GetSubjectTerm(j1.statement)
        p1 == GetPredicateTerm(j1.statement)
        s2 == GetSubjectTerm(j2.statement)
        p2 == GetPredicateTerm(j2.statement)
        To(subject_term, predicate_term) ==
            TwoPremiseResult(j1, j2,
                Statement(subject_term, predicate_term, j1.statement.copula),
                F_Analogy(Freq(j1), Conf(j1), Freq(j2), Conf(j2)), "Analogy")
    IN  IF TermEq(s1, p2) THEN To(s2, p1)
        ELSE IF TermEq(s1, s2) THEN To(p2, p1)
        ELSE IF TermEq(p1, p2) THEN To(s1, s2)
        ELSE IF TermEq(p1, s2) THEN To(s1, p2)
        ELSE Raised("AssertionError", "Error: Invalid inputs to nal_analogy")
Resemblance(j1, j2) ==
    LET s1 == GetSubjectTerm(j1.statement)
        p1 == GetPredicateTerm(j1.statement)
        s2 == GetSubjectTerm(j2.statement)
        p2 == GetPredicateTerm(j2.statement)
        To(subject_term, predicate_term) ==
            TwoPremiseResult(j1, j2,
                Statement(subject_term, predicate_term, j1.statement.copula),
                F_Resemblance(Freq(j1), Conf(j1), Freq(j2), Conf(j2)), "Resemblance")
    IN  IF TermEq(s1, p2) THEN To(s2, p1)
        ELSE IF TermEq(s1, s2) THEN To(p2, p1)
        ELSE IF TermEq(p1, p2) THEN To(s2, s1)
        ELSE IF TermEq(p1, s2) THEN To(p2, s2)
        ELSE Raised("AssertionError", "Error: Invalid inputs to nal_resemblance")

\* The immediate rules, applied to a judgment.
OnePremiseResult(j, result_statement, value, occurrence_time, rule) ==
    Returned([At(Judgment(result_statement, value), occurrence_time) EXCEPT
        !.evidential_base = MergeSentenceEvidentialBaseIntoSelf(@, j),
        !.rule = rule])
NegationRule(j) ==
    OnePremiseResult(j,
        StatementWith(GetSubjectTerm(j.statement), GetPredicateTerm(j.statement),
                      j.statement.copula, Negation),
        F_Negation(j.value.frequency, j.value.confidence), j.occurrence_time, "Negation")
Conversion(j) ==
    OnePremiseResult(j,
        Statement(GetPredicateTerm(j.statement), GetSubjectTerm(j.statement),
                  j.statement.copula),
        F_Conversion(j.value.frequency, j.value.confidence), j.occurrence_time,
        "Conversion")
Contraposition(j) ==
    LET negated_predicate_term ==
            CompoundTermInit(<<GetPredicateTerm(j.statement)>>, Negation).term
        negated_subject_term ==
            CompoundTermInit(<<GetSubjectTerm(j.statement)>>, Negation).term
    IN  OnePremiseResult(j,
            Statement(negated_predicate_term, negated_subject_term, j.statement.copula),
            F_Contraposition(j.value.frequency, j.value.confidence), None,
            "Contraposition")

\* immediate inference that stops after the negation
NegationOnly(j) == IF j.type = "Judgment" THEN <<NegationRule(j)>> ELSE <<>>
\* do_inference_one_premise: the calls it makes, in order
DoInferenceOnePremise(j) ==
    IF j.type = "Judgment"
    THEN <<NegationRule(j)>>
         \o (IF ~IsSymmetric(j.statement.copula) /\ RLess(RZero, j.value.frequency)
             THEN <<Conversion(j)>> ELSE <<>>)
         \o (IF j.statement.copula = Implication /\ RLess(j.value.frequency, ROne)
             THEN <<Contraposition(j)>> ELSE <<>>)
    ELSE <<>>

RECURSIVE Flatten(_)
Flatten(seqs) == IF seqs = <<>> THEN <<>> ELSE Head(seqs) \o Flatten(Tail(seqs))

\* NALInferenceRules has no attribute of the name the dispatcher asks for
MissingRule(name) == Raised("AttributeError", name)

\* The rules do_inference_two_premise calls for two sentences that pass its
\* checks, in the order it calls them.
TwoPremiseCalls(j1, j2) ==
    LET j1_subject_term == GetSubjectTerm(j1.statement)
        j2_subject_term == GetSubjectTerm(j2.statement)
        j1_predicate_term == GetPredicateTerm(j1.statement)
        j2_predicate_term == GetPredicateTerm(j2.statement)
        j1_copula == j1.statement.copula
        j2_copula == j2.statement.copula
        swapped == ~TermEq(j1_subject_term, j2_predicate_term)
        a == IF swapped THEN j2 ELSE j1
        b == IF swapped THEN j1 ELSE j2
    IN  IF TermEq(j1.statement, j2.statement) THEN <<Revision(j1, j2)>>
        ELSE IF ~IsSymmetric(j1_copula) /\ ~IsSymmetric(j2_copula)
        THEN IF \/ TermEq(j1_subject_term, j2_predicate_term)
                \/ TermEq(j1_predicate_term, j2_subject_term)
             THEN <<Deduction(a, b), Exemplification(b, a)>>
             ELSE IF TermEq(j1_subject_term, j2_subject_term)
             THEN <<Induction(j1, j2), Induction(j2, j1), Comparison(j1, j2),
                    MissingRule("IntensionalIntersection")>>
             ELSE IF TermEq(j1_predicate_term, j2_predicate_term)
             THEN <<Abduction(j1, j2), Abduction(j2, j1), Comparison(j1, j2),
                    MissingRule("IntensionalIntersection")>>
             ELSE <<Raised("AssertionError", "error, concepts not related")>>
        ELSE IF ~IsSymmetric(j1_copula) /\ IsSymmetric(j2_copula)
        THEN <<Analogy(j1, j2)>>
        ELSE IF IsSymmetric(j1_copula) /\ ~IsSymmetric(j2_copula)
        THEN <<Analogy(j2, j1)>>
        ELSE <<Resemblance(j1, j2)>>

\* An outcome of do_inference_two_premise: the list it returns or the
\* exception it raises, and whether the two stamps were marked as interacted.
InferenceReturns(derived_sentences, interacted) ==
    [op |-> "do_inference_two_premise", called |-> TRUE, exc |-> "none", msg |-> "",
     derived_sentences |-> derived_sentences, interacted |-> interacted]
InferenceRaises(raised) ==
    [op |-> "do_inference_two_premise", called |-> TRUE, exc |-> raised.exc,
     msg |-> raised.msg, derived_sentences |-> <<>>, interacted |-> FALSE]

SentencesOf(calls) == [n \in 1..Len(calls) |-> calls[n].sentence]
\* the immediate rules on what was derived, and the marking of the stamps
WithImmediate(derived) ==
    InferenceReturns(
        derived \o SentencesOf(Flatten([n \in 1..Len(derived) |->
                                           DoInferenceOnePremise(derived[n])])),
        TRUE)
\* an exception of a rule ends the call
Finish(calls) ==
    IF AllOk(calls) THEN WithImmediate(SentencesOf(calls))
    ELSE InferenceRaises(FirstRaise(calls))
DoInferenceTwoPremise(j1, j2) ==
    LET j1_subject_term == GetSubjectTerm(j1.statement)
        j2_subject_term == GetSubjectTerm(j2.statement)
        j1_predicate_term == GetPredicateTerm(j1.statement)
        j2_predicate_term == GetPredicateTerm(j2.statement)
        j1_copula == j1.statement.copula
        j2_copula == j2.statement.copula
        tautology ==
            \/ /\ TermEq(j1_subject_term, j2_predicate_term)
               /\ TermEq(j1_predicate_term, j2_subject_term)
            \/ /\ TermEq(j1_subject_term, j2_subject_term)
               /\ TermEq(j1_predicate_term, j2_predicate_term)
               /\ ~(j1_copula = Inheritance /\ j2_copula = Inheritance)
        different_copulas == j1_copula # j2_copula
        is_question == j1.type = "Question" \/ j2.type = "Question"
    IN  IF j1.statement.connector # NoConnector \/ j2.statement.connector # NoConnector
        THEN InferenceReturns(<<>>, FALSE)
        ELSE IF tautology \/ different_copulas THEN InferenceReturns(<<>>, FALSE)
        ELSE IF TermEq(j1.statement, j2.statement) /\ is_question
        THEN InferenceReturns(<<>>, FALSE)
        ELSE Finish(TwoPremiseCalls(j1, j2))

(***************************************************************************)
(* The sentences do_inference_two_premise is called with: judgments and    *)
(* questions on the inheritance and similarity statements of three atomic  *)
(* terms, each with a non-empty evidential base, and the negations of the  *)
(* statements.                                                             *)
(***************************************************************************)
AtomicTerms == {AtomicTerm(<<c>>).term : c \in {"M", "P", "S"}}
Statements ==
    {Statement(pair[1], pair[2], copula) :
        pair \in {p \in AtomicTerms \X AtomicTerms : p[1] # p[2]},
        copula \in {Inheritance, Similarity}}
EvidentialBases == (SUBSET (1..MaxEvidence)) \ {{}}
Frequencies == {RZero, ROne}
Confidence == Rat(9, 10)
Premises ==
    {[Judgment(statement, TruthValue(f, Confidence)) EXCEPT !.evidential_base = base] :
        statement \in Statements, f \in Frequencies, base \in EvidentialBases}
    \cup {[Question(statement) EXCEPT !.evidential_base = base] :
        statement \in Statements, base \in EvidentialBases}
    \cup {[Judgment(StatementWith(GetSubjectTerm(statement), GetPredicateTerm(statement),
                                  statement.copula, Negation),
                    TruthValue(ROne, Confidence)) EXCEPT !.evidential_base = {1}] :
        statement \in Statements}

NoInference ==
    [op |-> "none", called |-> FALSE, exc |-> "none", msg |-> "", derived_sentences |-> <<>>,
     interacted |-> FALSE]
InitInference ==
    /\ sentence1 \in Premises
    /\ sentence2 \in Premises
    /\ inference = NoInference
IdleInference ==
    /\ sentence1 = NoJudgment
    /\ sentence2 = NoJudgment
    /\ inference = NoInference

DoInferenceTwoPremiseStep ==
    /\ ~inference.called
    /\ inference' = DoInferenceTwoPremise(sentence1, sentence2)
    /\ UNCHANGED <<sentence1, sentence2, bagvars, inputvars, termvars, truthvars>>

\* The two-premise rules of NALInferenceRules, which can be called directly.
TwoPremiseRules ==
    {"Revision", "Deduction", "Analogy", "Resemblance", "Abduction", "Induction",
     "Exemplification", "Comparison"}
ApplyRule(rule, j1, j2) ==
    CASE rule = "Revision" -> Revision(j1, j2)
      [] rule = "Deduction" -> Deduction(j1, j2)
      [] rule = "Analogy" -> Analogy(j1, j2)
      [] rule = "Resemblance" -> Resemblance(j1, j2)
      [] rule = "Abduction" -> Abduction(j1, j2)
      [] rule = "Induction" -> Induction(j1, j2)
      [] rule = "Exemplification" -> Exemplification(j1, j2)
      [] rule = "Comparison" -> Comparison(j1, j2)
RuleOutcome(out, rule) ==
    [(IF out.exc = "none" THEN InferenceReturns(<<out.sentence>>, FALSE)
      ELSE InferenceRaises(out)) EXCEPT !.op = rule]
DoTwoPremiseRule ==
    /\ ~inference.called
    /\ \E rule \in TwoPremiseRules :
        inference' = RuleOutcome(ApplyRule(rule, sentence1, sentence2), rule)
    /\ UNCHANGED <<sentence1, sentence2, bagvars, inputvars, termvars, truthvars>>

\* Sentences on two pairs of terms that have no term in common.
StatementsOn(names) ==
    {Statement(AtomicTerm(<<pair[1]>>).term, AtomicTerm(<<pair[2]>>).term, copula) :
        pair \in {p \in names \X names : p[1] # p[2]},
        copula \in {Inheritance, Similarity}}
SentencesOn(names) ==
    {[Judgment(statement, TruthValue(f, Confidence)) EXCEPT !.evidential_base = base] :
        statement \in StatementsOn(names), f \in Frequencies, base \in EvidentialBases}
    \cup {[Question(statement) EXCEPT !.evidential_base = base] :
        statement \in StatementsOn(names), base \in EvidentialBases}
\* Judgments on the inheritance, similarity and implication statements of
\* the three atomic terms.
JudgmentsOfBase(base) ==
    {[Judgment(Statement(pair[1], pair[2], copula), TruthValue(f, Confidence))
          EXCEPT !.evidential_base = base] :
        pair \in {p \in AtomicTerms \X AtomicTerms : p[1] # p[2]},
        copula \in {Inheritance, Similarity, Implication},
        f \in Frequencies}
InitJudgments ==
    /\ sentence1 \in JudgmentsOfBase({1})
    /\ sentence2 \in JudgmentsOfBase({2})
    /\ inference = NoInference
InitUnrelated ==
    /\ sentence1 \in SentencesOn({"M", "P"})
    /\ sentence2 \in SentencesOn({"A", "B"})
    /\ inference = NoInference

NextInference ==
    \/ DoInferenceTwoPremiseStep
    \/ DoTwoPremiseRule


(***************************************************************************)
(* NALInferenceRules/HelperFunctions.py: the resultant sentence of two     *)
(* premises.  The name of the truth function stands for the function.      *)
(***************************************************************************)
TruthFunctions == {"F_Deduction", "F_Induction"}
ApplyTruthFunction(truth_value_function, f1, c1, f2, c2) ==
    CASE truth_value_function = "F_Deduction" -> F_Deduction(f1, c1, f2, c2)
      [] truth_value_function = "F_Induction" -> F_Induction(f1, c1, f2, c2)
\* the module NALGrammar.Terms has the class method Term.simplify and no
\* attribute simplify of its own
TermsSimplify(term) ==
    Raise("AttributeError", "module 'NALGrammar.Terms' has no attribute 'simplify'")
IsEvent(j) == j.occurrence_time # None
\* the cycle the system is in, later than every occurrence time
CurrentCycle == MaxTime + 1
\* Value_Projection: the value of j projected to the occurrence time
ValueProjection(j, occurrence_time) ==
    TruthValue(Freq(j),
        RMul(RSub(ROne, Rat(Abs(j.occurrence_time - occurrence_time),
                            Abs(j.occurrence_time - CurrentCycle)
                                + Abs(occurrence_time - CurrentCycle))),
             Conf(j)))
PremiseResultType(j1, j2) ==
    IF j1.type # "Judgment" THEN j1.type
    ELSE IF j2.type # "Judgment" THEN j2.type
    ELSE "Judgment"
\* the occurrence time create_resultant_sentence_two_premise gives the result
ResultOccurrenceTime(j1, j2, result_statement) ==
    IF \/ /\ result_statement.type = "statement"
          /\ CopulaIsFirstOrder(result_statement.copula)
       \/ /\ result_statement.type = "compound"
          /\ ~ConnectorIsFirstOrder(result_statement.connector)
    THEN IF IsEvent(j1) /\ IsEvent(j2)
         THEN IF j1.occurrence_time > j2.occurrence_time
              THEN j1.occurrence_time ELSE j2.occurrence_time
         ELSE IF IsEvent(j1) THEN j1.occurrence_time
         ELSE IF IsEvent(j2) THEN j2.occurrence_time
         ELSE None
    ELSE None
\* the second value given to the truth function: with two events, the value
\* of j1 projected to the time of j2
SecondValue(j1, j2) ==
    IF IsEvent(j1) /\ IsEvent(j2) THEN ValueProjection(j1, j2.occurrence_time)
    ELSE j2.value
Stamped(result, j1, j2, truth_value_function) ==
    Returned([result EXCEPT
        !.evidential_base = MergeSentenceEvidentialBaseIntoSelf(
                                MergeSentenceEvidentialBaseIntoSelf(@, j1), j2),
        !.rule = truth_value_function])
ValuedResult(result_type, j1, j2, result_statement, value2, truth_value_function) ==
    Stamped(At([(IF result_type = "Judgment" THEN Judgment(result_statement, NoValue)
                 ELSE Goal(result_statement, NoValue)) EXCEPT
                   !.value = ApplyTruthFunction(truth_value_function, Freq(j1), Conf(j1),
                                                value2.frequency, value2.confidence)],
               ResultOccurrenceTime(j1, j2, result_statement)),
            j1, j2, truth_value_function)
ResultantSentence(result_type, j1, j2, result_statement, truth_value_function) ==
    IF result_type = "Question"
    THEN Stamped(Question(result_statement), j1, j2, truth_value_function)
    ELSE IF j1.type = "Question" \/ (j2.type = "Question" /\ ~(IsEvent(j1) /\ IsEvent(j2)))
    THEN Raised("AttributeError", NoValueOfQuestion)
    ELSE ValuedResult(result_type, j1, j2, result_statement, SecondValue(j1, j2),
                      truth_value_function)
ResultantOfSimplified(j1, j2, simplified, truth_value_function) ==
    IF simplified.exc # "none" THEN Raised(simplified.exc, simplified.msg)
    ELSE ResultantSentence(PremiseResultType(j1, j2), j1, j2, simplified.term,
                           truth_value_function)
CreateResultantSentenceTwoPremise(j1, j2, result_statement, truth_value_function) ==
    ResultantOfSimplified(j1, j2, TermsSimplify(result_statement), truth_value_function)

(***************************************************************************)
(* The premises of the rules when sentences can be events, goals and       *)
(* questions: a sentence on M and P and a sentence on S and M, first-order *)
(* or higher-order.                                                        *)
(***************************************************************************)
OccurrenceTimes == {None} \cup (1..MaxTime)
SentenceTypes == {"Judgment", "Goal", "Question"}
SentenceOfType(type, statement) ==
    IF type = "Judgment" THEN Judgment(statement, TruthValue(ROne, Confidence))
    ELSE IF type = "Goal" THEN Goal(statement, TruthValue(ROne, Confidence))
    ELSE Question(statement)
TimedSentences(subject, predicate, base) ==
    {At([SentenceOfType(type, Statement(AtomicTerm(<<subject>>).term,
                                        AtomicTerm(<<predicate>>).term, copula))
            EXCEPT !.evidential_base = base], t) :
        type \in SentenceTypes, copula \in {Inheritance, Implication},
        t \in OccurrenceTimes}
\* the statements given as the statement of the result
ResultStatements(j1, j2) ==
    {Statement(GetSubjectTerm(j2.statement), GetPredicateTerm(j1.statement),
               j1.statement.copula),
     CompoundTermInit(<<GetSubjectTerm(j2.statement), GetPredicateTerm(j1.statement)>>,
                      Conjunction).term}
InitTimed ==
    /\ sentence1 \in TimedSentences("M", "P", {1})
    /\ sentence2 \in TimedSentences("S", "M", {2})
    /\ inference = NoInference
DoCreateResultantSentenceTwoPremise ==
    /\ ~inference.called
    /\ \E truth_value_function \in TruthFunctions :
        \E result_statement \in ResultStatements(sentence1, sentence2) :
            inference' = RuleOutcome(
                CreateResultantSentenceTwoPremise(sentence1, sentence2, result_statement,
                                                  truth_value_function),
                "create_resultant_sentence_two_premise")
    /\ UNCHANGED <<sentence1, sentence2, bagvars, inputvars, termvars, truthvars>>
NextResult ==
    \/ DoTwoPremiseRule
    \/ DoCreateResultantSentenceTwoPremise


(***************************************************************************)
(* The Bag as a value, so that one method can call another.                *)
(***************************************************************************)
Self ==
    [item_keys |-> item_keys, weights |-> weights, weights_sum |-> weights_sum,
     item_lookup_dict |-> item_lookup_dict, ordered_items |-> ordered_items]

Install(b) ==
    /\ item_keys' = b.item_keys
    /\ weights' = b.weights
    /\ weights_sum' = b.weights_sum
    /\ item_lookup_dict' = b.item_lookup_dict
    /\ ordered_items' = b.ordered_items

BagLen(b) == Len(b.item_keys)

\* Bag.take_using_key
TakeUsingKeyKeepSum(b, key) ==
    IF key \notin DOMAIN b.item_lookup_dict
    THEN [bag |-> b, ret |-> None, raised |-> TRUE]
    ELSE LET item_idx == Where(b.item_keys, key)
             item == b.item_lookup_dict[key]
         IN [bag |-> [b EXCEPT
                        !.item_lookup_dict = TakeFromLookupDict(@, key),
                        !.item_keys = Delete(@, item_idx),
                        !.weights = Delete(@, item_idx)],
             ret |-> item.key, raised |-> FALSE]
TakeUsingKey(b, key) ==
    IF key \notin DOMAIN b.item_lookup_dict
    THEN [bag |-> b, ret |-> None, raised |-> TRUE]
    ELSE LET item_idx == Where(b.item_keys, key)
             item == b.item_lookup_dict[key]
         IN [bag |-> [b EXCEPT
                        !.item_lookup_dict = TakeFromLookupDict(@, key),
                        !.item_keys = Delete(@, item_idx),
                        !.weights = Delete(@, item_idx),
                        !.weights_sum = @ - PriorityWeight(item.priority)],
             ret |-> item.key, raised |-> FALSE]

\* Bag._take_min: the outcomes, one per entry the Depq may yield as minimal
TakeMin(b) ==
    {LET t == TakeUsingKey([b EXCEPT !.ordered_items = DepqRemove(@, e)], e[1])
     IN [bag |-> t.bag, ret |-> e[1], raised |-> t.raised]
     : e \in DepqMinEntries(b.ordered_items)}

\* Bag.put, line 64: the value returned
PutReturnPurged(item, purged_item) == purged_item
PutReturn(item, purged_item) == item.key

\* Bag.put: the outcomes
Put(b, item) ==
    IF LookupRejects(b.item_lookup_dict, item)
    THEN {[bag |-> b, ret |-> None, raised |-> TRUE, purged |-> None]}
    ELSE LET weight == PriorityWeight(item.priority)
             b1 == [b EXCEPT
                      !.item_lookup_dict = PutIntoLookupDict(@, item),
                      !.item_keys = Append(@, item.key),
                      !.weights = Append(@, weight),
                      !.weights_sum = @ + weight,
                      !.ordered_items = DepqInsert(@, item, item.priority)]
         IN IF BagLen(b1) > Capacity
            THEN {[bag |-> t.bag,
                   ret |-> IF t.raised THEN None ELSE PutReturn(item, t.ret),
                   raised |-> t.raised,
                   purged |-> IF t.raised THEN None ELSE t.ret] : t \in TakeMin(b1)}
            ELSE {[bag |-> b1, ret |-> PutReturn(item, None),
                   raised |-> FALSE, purged |-> None]}

\* Config.GUI_USE_INTERFACE
GUI_USE_INTERFACE == TRUE

\* Bag.change_priority, strengthen_item and decay_item share their body but
\* for the budget update, newp being the priority the update leaves
Reprioritise(b, key, newp) ==
    LET concept_item == PeekUsingKey(b.item_lookup_dict, key)
    IN IF concept_item.key = None
       THEN [bag |-> b, raised |-> TRUE]
       ELSE LET current_weight == PriorityWeight(concept_item.priority)
                changed == [concept_item EXCEPT !.priority = newp]
                d1 == [b.item_lookup_dict EXCEPT ![key] = changed]
                d2 == IF GUI_USE_INTERFACE
                      THEN PutIntoLookupDict(TakeFromLookupDict(d1, key), changed)
                      ELSE d1
                new_weight == PriorityWeight(changed.priority)
                item_idx == Where(b.item_keys, key)
            IN [bag |-> [b EXCEPT
                           !.weights_sum = (@ - current_weight) + new_weight,
                           !.item_lookup_dict = d2,
                           !.weights = Assign(@, item_idx, new_weight)],
                raised |-> FALSE]

\* Bag.change_priority
ChangePriority(b, key, new_priority) ==
    Reprioritise(b, key, SetPriority(new_priority))

\* Bag.strengthen_item
StrengthenItem(b, key) ==
    Reprioritise(b, key, Strengthen(PeekUsingKey(b.item_lookup_dict, key).priority))

\* Bag.decay_item
DecayItem(b, key) ==
    Reprioritise(b, key, Decay(PeekUsingKey(b.item_lookup_dict, key).priority))

\* Bag.peek_max: the items the Depq may yield as maximal, None when it is empty
PeekMax(b) ==
    IF DepqSize(b.ordered_items) = 0 THEN {None}
    ELSE {e[1] : e \in DepqMaxEntries(b.ordered_items)}

(***************************************************************************)
(* Actions of the Bag                                                      *)
(***************************************************************************)
NoCall == [op |-> "none", arg |-> None, ret |-> None, raised |-> FALSE,
           purged |-> None, full |-> FALSE]

InitBag ==
    /\ item_keys = <<>>
    /\ weights = <<>>
    /\ weights_sum = 0
    /\ item_lookup_dict = <<>>
    /\ ordered_items = EmptyDepq
    /\ last = NoCall

DoPut ==
    /\ DepqSize(ordered_items) < MaxDepq
    /\ \E k \in Keys, p \in Priorities :
        /\ \E out \in Put(Self, Item(k, p)) :
            /\ Install(out.bag)
            /\ last' = [op |-> "put", arg |-> k, ret |-> out.ret,
                        raised |-> out.raised, purged |-> out.purged,
                        full |-> Len(item_keys) = Capacity]
            /\ UNCHANGED <<inputvars, infervars, termvars, truthvars>>

TakeStep(key) ==
    LET out == TakeUsingKey(Self, key)
    IN /\ Install(out.bag)
       /\ last' = NoCall
       /\ UNCHANGED <<inputvars, infervars, termvars, truthvars>>

DoTakeUsingKey == \E key \in Keys : TakeStep(key)

DoChangePriority ==
    \E key \in Keys, p \in Priorities :
        LET out == ChangePriority(Self, key, p)
        IN /\ Install(out.bag)
           /\ last' = NoCall
           /\ UNCHANGED <<inputvars, infervars, termvars, truthvars>>

DoStrengthenItem ==
    \E key \in Keys :
        LET out == StrengthenItem(Self, key)
        IN /\ Install(out.bag)
           /\ last' = NoCall
           /\ UNCHANGED <<inputvars, infervars, termvars, truthvars>>

DoDecayItem ==
    \E key \in Keys :
        LET out == DecayItem(Self, key)
        IN /\ Install(out.bag)
           /\ last' = NoCall
           /\ UNCHANGED <<inputvars, infervars, termvars, truthvars>>

NextBag ==
    \/ DoPut
    \/ DoTakeUsingKey
    \/ DoChangePriority
    \/ DoStrengthenItem
    \/ DoDecayItem

(***************************************************************************)
(* Term.term_dict.  A term object is known by its number in the order of   *)
(* creation; term_dict maps the string that Term.from_string was given to  *)
(* the object it made for that string.                                     *)
(***************************************************************************)
\* the strings given to Term.from_string: A, #A, #A(B), (A-->B), (A<->B),
\* (B<->A), (&,A,B), (&,B,A), [A], {A,B}, [(*,A,B)], (--,(A-->B)), (A --> B)
GivenTermStrings ==
    {
         <<"A">>,
         <<"#", "A">>,
         <<"#", "A", "(", "B", ")">>,
         <<"(", "A", "-", "-", ">", "B", ")">>,
         <<"(", "A", "<", "-", ">", "B", ")">>,
         <<"(", "B", "<", "-", ">", "A", ")">>,
         <<"(", "&", ",", "A", ",", "B", ")">>,
         <<"(", "&", ",", "B", ",", "A", ")">>,
         <<"[", "A", "]">>,
         <<"{", "A", ",", "B", "}">>,
         <<"[", "(", "*", ",", "A", ",", "B", ")", "]">>,
         <<"(", "-", "-", ",", "(", "A", "-", "-", ">", "B", ")", ")">>,
         <<"(", "A", " ", "-", "-", ">", " ", "B", ")">>}

\* the strings that StatementTerm.from_string hands to Term.from_string
StatementStrings(statement_string0) ==
    LET negated == GetTermConnectorFromString(Slice(statement_string0, 1, 3)) = Negation
        statement_string == IF negated
                            THEN Slice(statement_string0, 4, Len(statement_string0) - 1)
                            ELSE statement_string0
        top == GetTopLevelCopula(statement_string)
    IN  IF top.idx < 0 THEN <<>>
        ELSE <<Slice(statement_string, 1, top.idx),
               Slice(statement_string, top.idx + 3, Len(statement_string) - 1)>>
\* the strings that parse_toplevel_subterms_and_connector hands to it
SubtermStrings(compound_term_string) ==
    LET string == NoSpaces(compound_term_string)
        internal_string == Slice(string, 1, Len(string) - 1)
        is_set == GetTermConnectorFromString(<<string[1]>>) # NoConnector
        connector_string == IF internal_string[2] = TermDivider
                            THEN <<internal_string[1]>> ELSE Slice(internal_string, 0, 2)
        term_connector == GetTermConnectorFromString(connector_string)
    IN  IF is_set THEN SplitTopLevel(internal_string, 0, <<>>)
        ELSE IF Len(internal_string) < 2 THEN <<>>
        ELSE IF term_connector = NoConnector THEN <<>>
        ELSE IF Len(internal_string) <= Len(term_connector) THEN <<>>
        ELSE IF internal_string[Len(term_connector) + 1] # TermDivider THEN <<>>
        ELSE SplitTopLevel(Slice(internal_string, Len(term_connector) + 1,
                                 Len(internal_string)), 0, <<>>)
RECURSIVE SingletonStrings(_)
\* the strings handed to it when CompoundTerm.__init__ makes the singleton
\* sets of the elements of a set
SingletonStrings(subterms) ==
    IF subterms = <<>> THEN <<>>
    ELSE SplitTopLevel(NoSpaces(Head(subterms).string), 0, <<>>)
             \o SingletonStrings(Tail(subterms))

RECURSIVE FromStringCalls(_)
RECURSIVE CallsInTurn(_)
\* The calls of Term.from_string that return, in the order of their return,
\* when Term.from_string is called on a string that term_dict does not hold.
CallsThen(calls, string, rest) ==
    calls \o (IF calls # <<>> /\ calls[Len(calls)] = string
              THEN CallsInTurn(rest) ELSE <<>>)
CallsInTurn(strings) ==
    IF strings = <<>> THEN <<>>
    ELSE CallsThen(FromStringCalls(Head(strings)), Head(strings), Tail(strings))
CompoundCalls(calls, parsed) ==
    calls \o (IF parsed.exc = "none" /\ IsSet(parsed.connector) /\ Len(parsed.subterms) > 1
              THEN CallsInTurn(SingletonStrings(SortTerms(parsed.subterms)))
              ELSE <<>>)
CallsWithin(term_string) ==
    IF term_string = <<>> THEN <<>>
    ELSE IF term_string[1] = StatementStart /\ term_string[Len(term_string)] # StatementEnd
    THEN <<>>
    ELSE IF term_string[1] = StatementStart /\ GetTopLevelCopula(term_string).idx >= 0
    THEN CallsInTurn(StatementStrings(term_string))
    ELSE IF term_string[1] = StatementStart \/ IsSetBracketStart(term_string[1])
    THEN CompoundCalls(CallsInTurn(SubtermStrings(term_string)),
                       ParseToplevelSubtermsAndConnector(term_string))
    ELSE <<>>
WithOwnCall(calls, term_string, out) ==
    IF out.exc = "none" THEN Append(calls, term_string) ELSE calls
FromStringCalls(term_string) ==
    WithOwnCall(CallsWithin(term_string), term_string, TermFromString(term_string))

\* cls.term_dict[term_string] = term
PutTerm(dict, term_string, object) ==
    [k \in DOMAIN dict \cup {term_string} |-> IF k = term_string THEN object ELSE dict[k]]
RECURSIVE KeepTerms(_, _, _)
\* each call that returns keeps its new term, unless term_dict held the string
KeepTerms(dict, objects, calls) ==
    IF calls = <<>> THEN [term_dict |-> dict, term_objects |-> objects]
    ELSE IF Head(calls) \in DOMAIN dict THEN KeepTerms(dict, objects, Tail(calls))
    ELSE KeepTerms(PutTerm(dict, Head(calls), Len(objects) + 1),
                   Append(objects, TermFromString(Head(calls)).term), Tail(calls))
FromStringResult(kept, term_string, out) ==
    [term_dict |-> kept.term_dict, term_objects |-> kept.term_objects, exc |-> out.exc,
     object |-> IF out.exc = "none" THEN kept.term_dict[term_string] ELSE 0]
\* Term.from_string with the lookup in term_dict
FromString(dict, objects, term_string) ==
    IF term_string \in DOMAIN dict
    THEN [term_dict |-> dict, term_objects |-> objects, exc |-> "none",
          object |-> dict[term_string]]
    ELSE FromStringResult(KeepTerms(dict, objects, FromStringCalls(term_string)),
                          term_string, TermFromString(term_string))

RECURSIVE SyntacticComplexity(_)
RECURSIVE SubtermComplexities(_)
SubtermComplexities(subterms) ==
    IF subterms = <<>> THEN 0
    ELSE SyntacticComplexity(Head(subterms)) + SubtermComplexities(Tail(subterms))
\* _calculate_syntactic_complexity of AtomicTerm, VariableTerm (whose
\* dependency list is None or empty), CompoundTerm and StatementTerm
SyntacticComplexity(term) ==
    IF term.type \in {"atomic", "variable"} THEN 1
    ELSE IF term.type = "compound"
    THEN (IF term.connector # NoConnector THEN 1 ELSE 0) + SubtermComplexities(term.subterms)
    ELSE 1 + (IF term.connector # NoConnector THEN 1 ELSE 0)
           + SubtermComplexities(term.subterms)

NoTermCall == [term_string |-> <<>>, exc |-> "none", object |-> 0]
InitTerms ==
    /\ term_dict = <<>>
    /\ term_objects = <<>>
    /\ term_calls = 0
    /\ term_last = NoTermCall
InstallTerms(result, term_string) ==
    /\ term_dict' = result.term_dict
    /\ term_objects' = result.term_objects
    /\ term_calls' = term_calls + 1
    /\ term_last' = [term_string |-> term_string, exc |-> result.exc,
                     object |-> result.object]
DoTermFromString ==
    /\ term_calls < MaxTermCalls
    /\ \E term_string \in GivenTermStrings :
           InstallTerms(FromString(term_dict, term_objects, term_string), term_string)
    /\ UNCHANGED <<bagvars, inputvars, infervars, truthvars>>
NextTerms == DoTermFromString


(***************************************************************************)
(* The truth value functions applied to given frequencies and confidences. *)
(***************************************************************************)
GivenFrequencies == {RZero, Rat(1, 2), ROne}
GivenConfidences == {RZero, Rat(1, 2), Rat(9, 10)}
TruthValueFunctions ==
    {"F_Revision", "F_Negation", "F_Conversion", "F_Contraposition", "F_Deduction",
     "F_Analogy", "F_Resemblance", "F_Abduction", "F_Induction", "F_Exemplification",
     "F_Comparison", "F_Intersection", "F_Union", "F_Difference", "F_Projection",
     "F_Eternalization"}
TwoValueFunction(function, f1, c1, f2, c2) ==
    CASE function = "F_Revision" -> RevisionTruth(f1, c1, f2, c2)
      [] function = "F_Deduction" -> F_Deduction(f1, c1, f2, c2)
      [] function = "F_Analogy" -> F_Analogy(f1, c1, f2, c2)
      [] function = "F_Resemblance" -> F_Resemblance(f1, c1, f2, c2)
      [] function = "F_Abduction" -> F_Abduction(f1, c1, f2, c2)
      [] function = "F_Induction" -> F_Induction(f1, c1, f2, c2)
      [] function = "F_Exemplification" -> F_Exemplification(f1, c1, f2, c2)
      [] function = "F_Comparison" -> F_Comparison(f1, c1, f2, c2)
      [] function = "F_Intersection" -> F_Intersection(f1, c1, f2, c2)
      [] function = "F_Union" -> F_Union(f1, c1, f2, c2)
      [] function = "F_Difference" -> F_Difference(f1, c1, f2, c2)
CallTruthFunction(function, a) ==
    CASE function = "F_Negation" -> TruthReturned(F_Negation(a.f1, a.c1))
      [] function = "F_Conversion" -> TruthReturned(F_Conversion(a.f1, a.c1))
      [] function = "F_Contraposition" -> TruthReturned(F_Contraposition(a.f1, a.c1))
      [] function = "F_Eternalization" -> TruthReturned(F_Eternalization(a.f1, a.c1))
      [] function = "F_Projection" -> F_Projection(a.f1, a.c1, a.t_B, a.t_T)
      [] OTHER -> TruthReturned(TwoValueFunction(function, a.f1, a.c1, a.f2, a.c2))

NoTruth == [function |-> "none", exc |-> "none", value |-> NoValue]
IdleTruth ==
    /\ truth_args = [f1 |-> RZero, c1 |-> RZero, f2 |-> RZero, c2 |-> RZero,
                     t_B |-> None, t_T |-> None]
    /\ truth = NoTruth
InitTruth ==
    /\ truth_args \in [f1 : GivenFrequencies, c1 : GivenConfidences,
                       f2 : GivenFrequencies, c2 : GivenConfidences,
                       t_B : 1..MaxTime, t_T : 1..MaxTime]
    /\ truth = NoTruth
InstallTruth(function, out) ==
    truth' = [function |-> function, exc |-> out.exc, value |-> out.value]
DoTruthFunction ==
    /\ truth.function = "none"
    /\ \E function \in TruthValueFunctions :
           InstallTruth(function, CallTruthFunction(function, truth_args))
    /\ UNCHANGED <<truth_args, bagvars, inputvars, infervars, termvars>>
NextTruth == DoTruthFunction

\* The Bag on its own: the other components stay as they start.
Init == InitBag /\ InitInput /\ IdleInference /\ InitTerms /\ IdleTruth
Spec == Init /\ [][NextBag]_vars
\* The input buffer on its own.
SpecInput == Init /\ [][NextInput]_vars
\* The rules and do_inference_two_premise applied to every pair of the
\* sentences.
InitPremises == InitBag /\ InitInput /\ InitInference /\ InitTerms /\ IdleTruth
SpecInference == InitPremises /\ [][NextInference]_vars
\* The same on pairs of sentences that share no term.
InitStrangers == InitBag /\ InitInput /\ InitUnrelated /\ InitTerms /\ IdleTruth
SpecUnrelated == InitStrangers /\ [][NextInference]_vars
\* The same on judgments of the three copulas.
InitCopulas == InitBag /\ InitInput /\ InitJudgments /\ InitTerms /\ IdleTruth
SpecCopulas == InitCopulas /\ [][NextInference]_vars
\* The rules and create_resultant_sentence_two_premise applied to events,
\* goals and questions.
InitEvents == InitBag /\ InitInput /\ InitTimed /\ InitTerms /\ IdleTruth
SpecResult == InitEvents /\ [][NextResult]_vars
\* Term.from_string called on the given strings in any order.
SpecTerms == Init /\ [][NextTerms]_vars
\* The truth value functions applied to every choice of the given values.
InitValues == InitBag /\ InitInput /\ IdleInference /\ InitTerms /\ InitTruth
SpecTruth == InitValues /\ [][NextTruth]_vars

(***************************************************************************)
(* Properties of the Bag                                                   *)
(***************************************************************************)
Stored == DOMAIN item_lookup_dict
StoredPriority(k) == item_lookup_dict[k].priority
KeysOf(v) == {v[n] : n \in 1..Len(v)}

\* C1: after any sequence of put, take_using_key, change_priority,
\* strengthen_item and decay_item calls, evictions included, weights_sum equals
\* the sum of the entries of the weights vector.
C1_WeightsSum == weights_sum = SeqSum(weights)
C1_Witness ==
    /\ last.op = "put" /\ ~last.raised /\ last.purged # None
    /\ weights_sum > 0

\* C2: after every mutating call the bag holds at most Capacity items, and a
\* put into a bag holding Capacity items leaves it holding exactly Capacity.
C2_Claim ==
    /\ Len(item_keys) <= Capacity
    /\ (last.op = "put" /\ last.full) => Len(item_keys) = Capacity

\* C3: the key vector and the weight vector are as long as the lookup map has
\* entries, and the key vector holds exactly the keys of the map, each once.
C3_LenLookup ==
    /\ Len(item_keys) = Len(weights)
    /\ Len(item_keys) = Cardinality(Stored)
    /\ KeysOf(item_keys) = Stored
    /\ \A m, n \in 1..Len(item_keys) : item_keys[m] = item_keys[n] => m = n
C3_Witness ==
    /\ last.op = "put" /\ ~last.raised /\ last.purged # None
    /\ Len(item_keys) = Capacity

C5_Claim ==
    Len(item_keys) > 0 =>
        \A r \in PeekMax(Self) :
            /\ r \in Stored
            /\ \A k \in Stored : StoredPriority(r) >= StoredPriority(k)

\* C6: take_using_key(k) of a stored key returns the item stored under k and
\* removes it from the lookup map, the key vector, the weight vector and the
\* order structure.
C6_Claim ==
    [][\A k \in Keys :
          (k \in Stored /\ TakeStep(k)) =>
              /\ TakeUsingKey(Self, k).ret = k
              /\ k \notin DOMAIN item_lookup_dict'
              /\ k \notin KeysOf(item_keys')
              /\ Len(weights') = Len(weights) - 1
              /\ k \notin DepqKeys(ordered_items')]_vars

(***************************************************************************)
(* Properties of the input buffer                                          *)
(***************************************************************************)

\* C7: the sentences added to the input queue become input tasks in the
\* order in which they were added (the n-th input task is the n-th sentence
\* added, and the pending sentences follow in the order of their adding),
\* and a call of process_next_pending_sentence takes exactly the oldest
\* pending sentence when there is one, and changes neither the queue nor
\* the tasks nor the output when there is none.
C7_Fifo ==
    /\ \A n \in 1..Len(input_tasks) : input_tasks[n].id = n
    /\ \A n \in 1..Len(input_queue) : input_queue[n].id = Len(input_tasks) + n
    /\ created = Len(input_tasks) + Len(input_queue)
    /\ inlast.op = "process_next_pending_sentence" =>
         IF inlast.input_queue = <<>>
         THEN /\ input_queue = <<>>
              /\ input_tasks = inlast.input_tasks
              /\ output = inlast.output
         ELSE /\ input_queue = Tail(inlast.input_queue)
              /\ input_tasks = Append(inlast.input_tasks, Head(inlast.input_queue))

\* a call has just taken one of two pending sentences
C7_Witness ==
    /\ inlast.op = "process_next_pending_sentence"
    /\ Len(inlast.input_queue) = 2
    /\ Len(input_tasks) = 1
    /\ Len(input_queue) = 1

\* C8: after add_input_string on a string that is neither a reserved word
\* nor well-formed Narsese, the input queue is as it was, the call has
\* returned without raising, and one line was added to the output, the
\* rejection with its reason.
C8_Claim ==
    (inlast.op = "add_input_string" /\ inlast.arg \in MalformedStrings) =>
        /\ input_queue = inlast.input_queue
        /\ inlast.raised = "none"
        /\ Len(output) = Len(inlast.output) + 1
        /\ output[Len(output)].text = "INPUT REJECTED: "
        /\ output[Len(output)].arg # <<>>

(***************************************************************************)
(* Properties of two-premise inference                                     *)
(***************************************************************************)
Overlap(j1, j2) == j1.evidential_base \cap j2.evidential_base # {}

\* C9: when the evidential bases of the two sentences given to
\* do_inference_two_premise have an element in common, the list it returns
\* is empty.
C9_Claim ==
    (inference.op = "do_inference_two_premise" /\ Overlap(sentence1, sentence2)) =>
        inference.derived_sentences = <<>>

Dispatched == inference.op = "do_inference_two_premise"
\* both sentences are judgments on statements without a statement connector
PlainJudgments ==
    /\ sentence1.type = "Judgment" /\ sentence2.type = "Judgment"
    /\ sentence1.statement.connector = NoConnector
    /\ sentence2.statement.connector = NoConnector
PlainStatements ==
    /\ sentence1.statement.connector = NoConnector
    /\ sentence2.statement.connector = NoConnector
TermStrings(statement) == {statement.subterms[1].string, statement.subterms[2].string}
SharedTerms == TermStrings(sentence1.statement) \cap TermStrings(sentence2.statement)
\* the sentences of the returned list that the rule derived
DerivedBy(rule) ==
    {n \in 1..Len(inference.derived_sentences) :
        inference.derived_sentences[n].rule = rule}
Derived(n) == inference.derived_sentences[n]

\* C11: for two judgments on the same statement (same subject, predicate and
\* copula, whatever the copula) do_inference_two_premise returns a Revision
\* conclusion on that statement; if one of the two is a question it returns
\* an empty list.
C11_Claim ==
    (/\ Dispatched
     /\ PlainStatements
     /\ TermEq(sentence1.statement, sentence2.statement)
     /\ sentence1.statement.copula = sentence2.statement.copula
     /\ ~Overlap(sentence1, sentence2)) =>
        /\ inference.exc = "none"
        /\ IF sentence1.type = "Judgment" /\ sentence2.type = "Judgment"
           THEN \E n \in DerivedBy("Revision") :
                    TermEq(Derived(n).statement, sentence1.statement)
           ELSE inference.derived_sentences = <<>>

\* the statement of a with the term it shares with b replaced by the other
\* term of b
Substituted(a, b) ==
    LET shared == CHOOSE t \in TermStrings(a) \cap TermStrings(b) : TRUE
        other == CHOOSE t \in TermStrings(b) : t # shared
    IN  <<IF a.subterms[1].string = shared THEN other ELSE a.subterms[1].string,
          IF a.subterms[2].string = shared THEN other ELSE a.subterms[2].string>>
\* C12: given a judgment with a non-symmetric copula and a judgment with a
\* symmetric copula that share one term, in either order,
\* do_inference_two_premise returns an Analogy conclusion that has the
\* non-symmetric copula and the statement of the non-symmetric premise with
\* the shared term replaced by the other term of the symmetric premise.
C12_Claim ==
    (/\ Dispatched
     /\ PlainJudgments
     /\ IsSymmetric(sentence1.statement.copula) # IsSymmetric(sentence2.statement.copula)
     /\ Cardinality(SharedTerms) = 1
     /\ ~Overlap(sentence1, sentence2)) =>
        LET a == IF IsSymmetric(sentence1.statement.copula)
                 THEN sentence2.statement ELSE sentence1.statement
            b == IF IsSymmetric(sentence1.statement.copula)
                 THEN sentence1.statement ELSE sentence2.statement
        IN  /\ inference.exc = "none"
            /\ \E n \in DerivedBy("Analogy") :
                /\ Derived(n).statement.copula = a.copula
                /\ <<Derived(n).statement.subterms[1].string,
                     Derived(n).statement.subterms[2].string>> = Substituted(a, b)

\* C13: given two judgments with the same symmetric copula that share exactly
\* one term, wherever that term stands in the two statements, the
\* Resemblance conclusion do_inference_two_premise returns is on the two
\* terms that are not shared and does not contain the shared term.
C13_Claim ==
    (/\ Dispatched
     /\ PlainJudgments
     /\ IsSymmetric(sentence1.statement.copula)
     /\ sentence1.statement.copula = sentence2.statement.copula
     /\ Cardinality(SharedTerms) = 1
     /\ ~Overlap(sentence1, sentence2)) =>
        /\ inference.exc = "none"
        /\ DerivedBy("Resemblance") # {}
        /\ \A n \in DerivedBy("Resemblance") :
            TermStrings(Derived(n).statement) =
                (TermStrings(sentence1.statement) \cup TermStrings(sentence2.statement))
                    \ SharedTerms

\* the premise of the two whose subject is the predicate of the other (M-->P)
\* and the other one (S-->M)
MajorPremise ==
    IF TermEq(GetSubjectTerm(sentence1.statement), GetPredicateTerm(sentence2.statement))
    THEN sentence1 ELSE sentence2
MinorPremise ==
    IF TermEq(GetSubjectTerm(sentence1.statement), GetPredicateTerm(sentence2.statement))
    THEN sentence2 ELSE sentence1
Chained ==
    /\ Dispatched
    /\ PlainJudgments
    /\ ~IsSymmetric(sentence1.statement.copula)
    /\ sentence1.statement.copula = sentence2.statement.copula
    /\ Cardinality(SharedTerms) = 1
    /\ \/ TermEq(GetSubjectTerm(sentence1.statement), GetPredicateTerm(sentence2.statement))
       \/ TermEq(GetPredicateTerm(sentence1.statement), GetSubjectTerm(sentence2.statement))
\* C14: given the judgments M-->P and S-->M in either order,
\* do_inference_two_premise returns the Deduction conclusion S-->P, whose
\* frequency is f1*f2 and whose confidence is f1*f2*c1*c2, and the
\* Exemplification conclusion P-->S.
C14_DeductionExemplification ==
    Chained =>
        /\ inference.exc = "none"
        /\ \E n \in DerivedBy("Deduction") :
            /\ Derived(n).type = "Judgment"
            /\ Derived(n).statement.copula = MajorPremise.statement.copula
            /\ TermEq(GetSubjectTerm(Derived(n).statement),
                      GetSubjectTerm(MinorPremise.statement))
            /\ TermEq(GetPredicateTerm(Derived(n).statement),
                      GetPredicateTerm(MajorPremise.statement))
            /\ Derived(n).value.frequency = RMul(Freq(sentence1), Freq(sentence2))
            /\ Derived(n).value.confidence =
                   RMul(RMul(Freq(sentence1), Freq(sentence2)),
                        RMul(Conf(sentence1), Conf(sentence2)))
        /\ \E n \in DerivedBy("Exemplification") :
            /\ Derived(n).statement.copula = MajorPremise.statement.copula
            /\ TermEq(GetSubjectTerm(Derived(n).statement),
                      GetPredicateTerm(MajorPremise.statement))
            /\ TermEq(GetPredicateTerm(Derived(n).statement),
                      GetSubjectTerm(MinorPremise.statement))
\* (S --> M) %1.0;0.9% and (M --> P) %1.0;0.9%, in this order, have given
\* (S --> P) %1.0;0.81%
C14_Witness ==
    /\ Chained
    /\ sentence1.statement.string = <<"(", "S", " ", "-", "-", ">", " ", "M", ")">>
    /\ sentence2.statement.string = <<"(", "M", " ", "-", "-", ">", " ", "P", ")">>
    /\ Freq(sentence1) = ROne /\ Freq(sentence2) = ROne
    /\ \E n \in DerivedBy("Deduction") :
        /\ Derived(n).statement.string = <<"(", "S", " ", "-", "-", ">", " ", "P", ")">>
        /\ Derived(n).value = TruthValue(ROne, Rat(81, 100))

\* the two sentences are inheritance judgments that share only their subject
SharedSubject ==
    /\ Dispatched
    /\ PlainJudgments
    /\ ~IsSymmetric(sentence1.statement.copula)
    /\ sentence1.statement.copula = sentence2.statement.copula
    /\ Cardinality(SharedTerms) = 1
    /\ TermEq(GetSubjectTerm(sentence1.statement), GetSubjectTerm(sentence2.statement))
\* the two sentences are inheritance judgments that share only their predicate
SharedPredicate ==
    /\ Dispatched
    /\ PlainJudgments
    /\ ~IsSymmetric(sentence1.statement.copula)
    /\ sentence1.statement.copula = sentence2.statement.copula
    /\ Cardinality(SharedTerms) = 1
    /\ TermEq(GetPredicateTerm(sentence1.statement), GetPredicateTerm(sentence2.statement))
\* the returned list has a conclusion of the rule on subject --> predicate
\* with the truth value
Concluded(rule, subject_term, predicate_term, value) ==
    \E n \in DerivedBy(rule) :
        /\ TermEq(GetSubjectTerm(Derived(n).statement), subject_term)
        /\ TermEq(GetPredicateTerm(Derived(n).statement), predicate_term)
        /\ Derived(n).statement.copula = sentence1.statement.copula
        /\ Derived(n).value = value
\* C15: given two inheritance judgments that share their subject M,
\* do_inference_two_premise returns the Induction conclusions S-->P and
\* P-->S, and given two that share their predicate M it returns the
\* Abduction conclusions S-->P and P-->S; each has the truth value of the
\* rule for its order of the premises, and none contains M.
C15_Claim ==
    /\ SharedSubject =>
        /\ inference.exc = "none"
        /\ Concluded("Induction", GetPredicateTerm(sentence2.statement),
                     GetPredicateTerm(sentence1.statement),
                     F_Induction(Freq(sentence1), Conf(sentence1),
                                 Freq(sentence2), Conf(sentence2)))
        /\ Concluded("Induction", GetPredicateTerm(sentence1.statement),
                     GetPredicateTerm(sentence2.statement),
                     F_Induction(Freq(sentence2), Conf(sentence2),
                                 Freq(sentence1), Conf(sentence1)))
    /\ SharedPredicate =>
        /\ inference.exc = "none"
        /\ Concluded("Abduction", GetSubjectTerm(sentence2.statement),
                     GetSubjectTerm(sentence1.statement),
                     F_Abduction(Freq(sentence1), Conf(sentence1),
                                 Freq(sentence2), Conf(sentence2)))
        /\ Concluded("Abduction", GetSubjectTerm(sentence1.statement),
                     GetSubjectTerm(sentence2.statement),
                     F_Abduction(Freq(sentence2), Conf(sentence2),
                                 Freq(sentence1), Conf(sentence1)))

(***************************************************************************)
(* Properties of the sentence a two-premise rule makes                     *)
(***************************************************************************)
AnyQuestion == sentence1.type = "Question" \/ sentence2.type = "Question"
AsJudgment(j) == [j EXCEPT !.type = "Judgment", !.value = TruthValue(ROne, Confidence)]
\* what the rule that was called gives for two judgments on the same statements
OfJudgments == ApplyRule(inference.op, AsJudgment(sentence1), AsJudgment(sentence2))
AllQuestions ==
    \A n \in 1..Len(inference.derived_sentences) :
        Derived(n).type = "Question" /\ Derived(n).value = NoValue
\* C16: when one of the two premises is a question, whatever the other one
\* is, the derivation does not fail and every sentence derived is a question
\* without a truth value on the statement that the same rule derives from
\* two judgments.
C16_Claim ==
    /\ (/\ inference.called
        /\ AnyQuestion
        /\ inference.op \in TwoPremiseRules
        /\ OfJudgments.exc = "none") =>
            /\ inference.exc = "none"
            /\ AllQuestions
            /\ \A n \in 1..Len(inference.derived_sentences) :
                TermEq(Derived(n).statement, OfJudgments.sentence.statement)
    /\ (/\ inference.called
        /\ AnyQuestion
        /\ inference.op = "create_resultant_sentence_two_premise") =>
            /\ inference.exc = "none"
            /\ AllQuestions

\* the time of the one event, the later time of two events, none otherwise
ExpectedOccurrenceTime ==
    IF IsEvent(sentence1) /\ IsEvent(sentence2)
    THEN Max2(sentence1.occurrence_time, sentence2.occurrence_time)
    ELSE IF IsEvent(sentence1) THEN sentence1.occurrence_time
    ELSE IF IsEvent(sentence2) THEN sentence2.occurrence_time
    ELSE None
\* C17: the occurrence time of every conclusion of two premises, whatever
\* its statement, is the time of the event if one premise is an event, the
\* later of the two times if both are, and none if neither is.
C17_Claim ==
    inference.called =>
        \A n \in 1..Len(inference.derived_sentences) :
            Derived(n).occurrence_time = ExpectedOccurrenceTime

(***************************************************************************)
(* Properties of Term.from_string and term_dict                            *)
(***************************************************************************)
Kept == DOMAIN term_dict
ObjectOf(term_string) == term_objects[term_dict[term_string]]

\* C18: whenever Term.from_string was given two strings that denote the
\* same canonical term (the terms made for them have the same string, as
\* for the two orders of the terms of a symmetric copula or of the children
\* of an order invariant connector), it returned the identical object for
\* both, not merely an equal one.
C18_Claim ==
    \A s1 \in Kept : \A s2 \in Kept :
        ObjectOf(s1).string = ObjectOf(s2).string => term_dict[s1] = term_dict[s2]

RoundTrips(result, term) ==
    /\ result.exc = "none"
    /\ result.term_objects[result.object].string = term.string
\* C19: for every term that Term.from_string built (atomic, variable with
\* or without a dependency list, compound, set, statement, negation),
\* Term.from_string on the string of the term succeeds and returns a term
\* with the same string, that is a term equal to it.
C19_Claim ==
    \A n \in 1..Len(term_objects) :
        RoundTrips(FromString(term_dict, term_objects, term_objects[n].string),
                   term_objects[n])

\* the children of a compound term as its string names them
WrittenSubterms(term_string) ==
    IF ObjectOf(term_string).type = "compound"
    THEN ParseToplevelSubtermsAndConnector(term_string).subterms
    ELSE ObjectOf(term_string).subterms
\* C20: the syntactic complexity of an atomic term is 1; that of a compound
\* term, sets of any number of elements included, is 1 plus the sum of the
\* complexities of its children ([A] has 2, {A,B} has 3, [(*,A,B)] has 4);
\* that of a plain statement is 1 plus the complexities of its subject and
\* its predicate ((A-->B) has 3).
C20_Claim ==
    \A s \in Kept :
        ObjectOf(s).type # "variable" =>
            SyntacticComplexity(ObjectOf(s)) =
                IF ObjectOf(s).type = "atomic" THEN 1
                ELSE 1 + SubtermComplexities(WrittenSubterms(s))

(***************************************************************************)
(* Properties of the truth value functions                                 *)
(***************************************************************************)
Called(function) == truth.function = function
RLeq(a, b) == a.n * b.d <= b.n * a.d

\* C21: F_Difference returns the frequency f1 * (1 - f2) and the confidence
\* c1 * c2 for all f1, f2, c1, c2 in [0, 1]; the frequency is not zero
\* when f1 > 0 and f2 < 1.
C21_Claim ==
    Called("F_Difference") =>
        /\ truth.exc = "none"
        /\ truth.value = TruthValue(RMul(truth_args.f1, RSub(ROne, truth_args.f2)),
                                    RMul(truth_args.c1, truth_args.c2))

\* C22: projecting a judgment to its own occurrence time (t_T = t_B)
\* returns the frequency and the confidence it has, whatever the current
\* cycle number is.
C22_Claim ==
    Called("F_Projection") /\ truth_args.t_B = truth_args.t_T =>
        /\ truth.exc = "none"
        /\ truth.value = TruthValue(truth_args.f1, truth_args.c1)

\* C29: every truth value function, given frequencies in [0, 1] and
\* confidences in [0, 1), returns a frequency in [0, 1] and a confidence in
\* [0, 1): the confidence is never 1 or more.
C29_Claim ==
    ~Called("none") /\ truth.exc = "none" =>
        /\ RLeq(RZero, truth.value.frequency) /\ RLeq(truth.value.frequency, ROne)
        /\ RLeq(RZero, truth.value.confidence) /\ RLess(truth.value.confidence, ROne)

(***************************************************************************)
(* Further properties of the Bag                                           *)
(***************************************************************************)
\* the priority an item has when Item(k, p) was just put: that of the item
\* put, and the stored priority of every other item
PriorityAtPut(j, k, p) == IF j = k THEN p ELSE StoredPriority(j)

\* C23: when a put makes the bag exceed its capacity, the item removed is
\* stored in the bag at that moment, and its current priority, as last set
\* by put, change_priority, strengthen_item or decay_item, is minimal among
\* the current priorities of the items then in the bag.
C23_Claim ==
    \A k \in Keys \ Stored : \A p \in Priorities :
        Len(item_keys) >= Capacity =>
            \A out \in Put(Self, Item(k, p)) :
                /\ out.purged \in Stored \cup {k}
                /\ \A j \in Stored \cup {k} :
                       PriorityAtPut(out.purged, k, p) <= PriorityAtPut(j, k, p)

C25_Claim ==
    (/\ Dispatched
     /\ PlainStatements
     /\ sentence1.statement.copula = sentence2.statement.copula
     /\ SharedTerms = {}) =>
        /\ inference.exc = "none"
        /\ inference.derived_sentences = <<>>

\* the two sentences pass the initial checks of do_inference_two_premise:
\* no top level connector, no tautology, the same copula
Tautology ==
    \/ /\ TermEq(GetSubjectTerm(sentence1.statement), GetPredicateTerm(sentence2.statement))
       /\ TermEq(GetPredicateTerm(sentence1.statement), GetSubjectTerm(sentence2.statement))
    \/ /\ TermEq(GetSubjectTerm(sentence1.statement), GetSubjectTerm(sentence2.statement))
       /\ TermEq(GetPredicateTerm(sentence1.statement), GetPredicateTerm(sentence2.statement))
       /\ ~(sentence1.statement.copula = Inheritance
            /\ sentence2.statement.copula = Inheritance)
PassesChecks ==
    /\ PlainStatements
    /\ ~Tautology
    /\ sentence1.statement.copula = sentence2.statement.copula

\* C26: every call of do_inference_two_premise that passes the initial
\* checks and returns ends with the two sentences marked as mutually
\* interacted, also when it derived nothing.
C26_Claim ==
    (Dispatched /\ PassesChecks /\ inference.exc = "none") => inference.interacted

InList(sentence) == \E m \in 1..Len(inference.derived_sentences) : Derived(m) = sentence
C28_Claim ==
    /\ ~TermEq(TermFromString(<<"(", "-", "-", ",", "(", "A", "-", "-", ">", "B", ")", ")">>).term,
               TermFromString(<<"(", "A", "-", "-", ">", "B", ")">>).term)
    /\ Dispatched =>
           \A n \in 1..Len(inference.derived_sentences) :
               Derived(n).rule \in TwoPremiseRules =>
                   /\ InList(NegationRule(Derived(n)).sentence)
                   /\ ~TermEq(NegationRule(Derived(n)).sentence.statement,
                              Derived(n).statement)

\* the (statement, truth value) pairs of the list a call returned
ConclusionsOf(out) ==
    {<<out.derived_sentences[n].statement.string, out.derived_sentences[n].value>> :
        n \in 1..Len(out.derived_sentences)}
SameConclusions(out, swapped) ==
    (out.exc = "none" /\ swapped.exc = "none") =>
        ConclusionsOf(out) = ConclusionsOf(swapped)
\* C30: for two judgments j1 and j2 with disjoint evidential bases, the set
\* of (statement, truth value) conclusions that do_inference_two_premise(j1,
\* j2) returns is the set that do_inference_two_premise(j2, j1) returns.
C30_Claim ==
    (/\ Dispatched
     /\ sentence1.type = "Judgment" /\ sentence2.type = "Judgment"
     /\ ~Overlap(sentence1, sentence2)) =>
        SameConclusions(inference, DoInferenceTwoPremise(sentence2, sentence1))

====
